---- MODULE Spec2Model ----
(***************************************************************************)
(* Verification model of the stream-motion-detect monitoring core.         *)
(*                                                                         *)
(* Three parts share this module, each with its own specification:         *)
(*   SpecThrottle  the per-subject cool-down of HelmetViolationManager and *)
(*                 FaceDetectionManager (src/src/managers/...)             *)
(*   SpecStream    one stream client: capture worker(s), bounded frame     *)
(*                 queue, reconnect policy, start/stop (src/src/streams)   *)
(*   SpecRules     the rule engine's queries over its cached snapshot      *)
(*                 (src/src/managers/rule_engine_manager.py)               *)
(* Time is counted in ticks; one tick stands for ten seconds of wall time  *)
(* in the throttle part (screenshot_interval 2 ticks = the default 20 s).  *)
(***************************************************************************)
EXTENDS Integers, Sequences, FiniteSets, TLC

(***************************************************************************)
(* Bounds of the model                                                     *)
(***************************************************************************)
NumCallers == 2        \* threads that call a manager's process_frame
MaxClock == 2          \* last tick of the throttle clock
MaxResults == 3        \* decisions recorded per behaviour
CoolDown == 2          \* screenshot_interval / notification_interval, in ticks
NumWorkers == 2        \* capture threads one stream object ever starts
MaxFrames == 4         \* frames a stream's source ever delivers
MaxAttempts == 3       \* reconnect attempts followed per stream
MaxRetry == 3          \* largest retry_attempts a sender is built with
MaxJobs == 3           \* notifications submitted to the sender
MaxWorkerThreads == 2         \* threads start_async_worker makes in a run
MaxSegments == 3       \* segments an HLS playlist comes to list
MaxSpins == 2          \* turns of the HLS capture loop followed once the segments are used up
MaxPTime == 5          \* ticks of time.time() followed by the frame sampler
processing_interval == 2   \* 1.0 / processing_fps, in ticks
MaxClients == 3        \* stream clients a registry ever creates
MaxConfigs == 2        \* entries of stream_sources read by initialize_streams
MaxDispatch == 3       \* frames handed to the orchestrator's frame handler
MaxStops == 2          \* calls of MonitoringSystem.stop followed
MaxRules == 2          \* rows in table detection_rules
MaxRanges == 2         \* time ranges in one schedule_config
MaxFaces == 2          \* face detections in one frame
MaxViolations == 2     \* helmet violations in one frame
MaxITime == 4          \* last tick of the inactivity clock
MaxEvents == 3         \* inactivity events counted per instant
inactivity_threshold == 2     \* InactivityDetectionManager.inactivity_threshold, ticks
check_interval == 2           \* InactivityDetectionManager.check_interval, ticks
buffer_size == 2       \* config 'buffer_size': capacity of the frame queue
max_reconnect_attempts == 2   \* config 'max_reconnect_attempts'
reload_interval == 300       \* RuleEngineManager.reload_interval, seconds

VARIABLES
    \* ---- throttle managers
    last_screenshot_time,     \* HelmetViolationManager.last_screenshot_time
    last_notification_time,   \* FaceDetectionManager.last_notification_time
    screenshot_manager,       \* [kind -> BOOLEAN]: the manager was built with one
    notification_sender,      \* [kind -> BOOLEAN]: the manager was built with one
    clock,                    \* datetime.now(), in ticks
    call,                     \* [caller -> frame of _process_single_*]
    results,                  \* [kind, person_id, time] -> how many returned dicts said
                              \* accepted (screenshot_taken / notification_sent) or not
    overlapped,               \* some call began while another was in progress
    capture_failed,           \* some screenshot capture returned None
    \* ---- one stream client (BaseStream and its RTSP / HTTP subclasses)
    stream_class,             \* "rtsp" (RTSPStream, WebcamStream) or "http" (HTTPStream)
    is_running,               \* BaseStream.is_running
    is_connected,             \* BaseStream.is_connected
    thread,                   \* BaseStream.thread: the worker last started, 0 = None
    reconnect_count,          \* BaseStream.reconnect_count
    frame_queue,              \* BaseStream.frame_queue, oldest first
    worker,                   \* [worker -> position in _capture_loop and frame in hand]
    ctl,                      \* position of the thread calling start_capture / stop_capture
    captured,                 \* frames read from the source so far (the last frame's id)
    consumed,                 \* a consumer (get_latest_frame, stop_capture) took a frame
    stopped,                  \* stop_capture has been called
    attempts,                 \* connects tried by _reconnect since the source last
                              \* delivered a frame
    \* ---- rule engine (RuleEngineManager) and its store
    store,                    \* rows of table detection_rules, in query order
    rules_cache,              \* RuleEngineManager.rules_cache, in insertion order
    last_reload_time,         \* RuleEngineManager.last_reload_time, NoReload = None
    rnow,                     \* datetime.now(): index into Timeline
    query,                    \* the arguments of the last query and its instant
    result,                   \* what the last query returned
    \* ---- one evaluation of a rule's schedule
    sched,                    \* the schedule evaluated last, its instant and the answer
    \* ---- one frame through HelmetViolationManager.process_frame
    hframe,                   \* the frame's detections, what was returned and counted
    \* ---- InactivityDetectionManager, one camera
    camera_state,             \* camera_states[camera_id]
    iclock,                   \* datetime.now(), in ticks
    icall,                    \* [caller -> position in process_frame and its frame]
    ievents,                  \* [time -> inactivity events returned with that time]
    iframes,                  \* time of the last frame with a face / with motion
    \* ---- NotificationSender and its endpoint
    nsender,                  \* async_mode, retry_attempts, is_running; the endpoint's state
    notification_queue,       \* NotificationSender.notification_queue, oldest first
    stats,                    \* NotificationSender.stats counters
    ncall,                    \* [caller -> position in send_violation_notification]
    nworker,                  \* position of the thread running _async_worker
    jobs,                     \* [notification -> who delivered it, attempts made, outcome]
    \* ---- UniversalStreamManager's sampler and one of its streams
    ptime,                    \* time.time(), in ticks
    pstream,                  \* the stream: is_running, frame_callback, frames queued
    frame_callbacks,          \* stream_id in UniversalStreamManager.frame_callbacks
    last_processing_time,     \* UniversalStreamManager.last_processing_time[stream_id]
    ploop,                    \* the monitoring loop's position in process_frames
    handler_calls,            \* when the handler was invoked last and the time before
    \* ---- UniversalStreamManager's registry of stream clients
    reg_streams,              \* UniversalStreamManager.streams: the (id, client) entries held
    reg_created,              \* stream clients created so far (the last client's number)
    reg_op,                   \* the last registry call: its argument, result and the registry before
    \* ---- MonitoringSystem: the dispatch loop and its frame handler
    osys,                     \* MonitoringSystem.is_running and the state of monitoring_thread
    omanagers,                \* the category managers / detectors that were constructed
    ostate,                   \* [manager -> frames it has processed]: its timestamps, timers, counters and notifications change only then
    ototal,                   \* stats["total_frames_processed"]
    oframe,                   \* the last run of _process_frame: what was enabled, called and raised
    oafter,                   \* a handler run has raised, and the streams dispatched since
    oshut,                    \* the drowsiness detector's face_mesh, the calls of stop(), what the last raised
    \* ---- one manager's handling of a detection whose sinks may fail
    sink,                     \* the detection handled last, which sink failed, and per subject the last accepted decision with a failed sink
    \* ---- InactivityDetectionManager with several cameras
    camera_states,            \* InactivityDetectionManager.camera_states
    cam_alone,                \* [camera -> the state a manager fed only that camera's frames would hold]
    cam_op,                   \* the last process_frame: its camera, what it returned, what the camera alone would return
    \* ---- RuleEngineManager called from several threads
    rthread,                  \* [thread -> where it is in get_enabled_detection_types and what it saw]
    last_complete,            \* the rule set of the last reload_rules whose loop ran to its end
    reload_failure,           \* a reload_rules has ended in its except branch
    \* ---- the worker threads of NotificationSender
    wthreads,                 \* [k -> the thread made by the k-th start_async_worker, inside _async_worker]
    wctl,                     \* the thread calling start_async_worker / stop_async_worker / cleanup, and self.worker_thread
    \* ---- LazyDetectorManager, one capability
    lazy,                     \* [loaded: the name is in _detectors, lock: the thread holding _locks[name], loading: threads constructing]
    lcall,                    \* [thread -> where it is in get_helmet_detector / unload_detector and what it returned]
    \* ---- HLSStream
    hls,                      \* HLSStream: is_running, the playlist (segments, is_endlist), current_segment_index, where its thread is
    \* ---- the error path of a capture loop (RTSPStream, WebcamStream)
    cap_loop,                 \* the stream flags, where the capture thread is, the error in hand and whether error_callback got it
    \* ---- MonitoringSystem._monitoring_loop over the stream registry
    dloop,                    \* is_running, where the monitoring thread is, and the dict iterator of process_frames (size at its start, entries passed)
    \* ---- MonitoringSystem._process_frame: what a detection leads to
    routed                    \* the last detection routed by _process_frame and whether a record, screenshot or notification came of it

throttleVars == <<last_screenshot_time, last_notification_time, screenshot_manager,
                  notification_sender, clock, call, results, overlapped,
                  capture_failed>>

streamVars == <<stream_class, is_running, is_connected, thread, reconnect_count,
                frame_queue, worker, ctl, captured, consumed, stopped, attempts>>

ruleVars == <<store, rules_cache, last_reload_time, rnow, query, result>>

schedVars == <<sched>>
helmetVars == <<hframe>>
inactVars == <<camera_state, iclock, icall, ievents, iframes>>
notifyVars == <<nsender, notification_queue, stats, ncall, nworker, jobs>>
samplerVars == <<ptime, pstream, frame_callbacks, last_processing_time, ploop, handler_calls>>
registryVars == <<reg_streams, reg_created, reg_op>>
orchVars == <<osys, omanagers, ostate, ototal, oframe, oafter, oshut>>
sinkVars == <<sink>>
cameraVars == <<camera_states, cam_alone, cam_op>>
reloadVars == <<rthread, last_complete, reload_failure>>
workerVars == <<wthreads, wctl>>
lazyVars == <<lazy, lcall>>
hlsVars == <<hls>>
captureVars == <<cap_loop>>
dloopVars == <<dloop>>
routeVars == <<routed>>

extraVars == <<schedVars, helmetVars, inactVars, notifyVars, samplerVars, registryVars, orchVars, sinkVars, cameraVars, reloadVars, workerVars, lazyVars, hlsVars, captureVars, dloopVars, routeVars>>

notSchedule == <<throttleVars, streamVars, ruleVars, helmetVars, inactVars, notifyVars, samplerVars, registryVars, orchVars, sinkVars, cameraVars, reloadVars, workerVars, lazyVars, hlsVars, captureVars, dloopVars, routeVars>>
notHelmet == <<streamVars, ruleVars, schedVars, inactVars, notifyVars, samplerVars, registryVars, orchVars, sinkVars, cameraVars, reloadVars, workerVars, lazyVars, hlsVars, captureVars, dloopVars, routeVars>>
notInactivity == <<throttleVars, streamVars, ruleVars, schedVars, helmetVars, notifyVars, samplerVars, registryVars, orchVars, sinkVars, cameraVars, reloadVars, workerVars, lazyVars, hlsVars, captureVars, dloopVars, routeVars>>
notNotify == <<throttleVars, streamVars, ruleVars, schedVars, helmetVars, inactVars, samplerVars, registryVars, orchVars, sinkVars, cameraVars, reloadVars, workerVars, lazyVars, hlsVars, captureVars, dloopVars, routeVars>>
notSampler == <<throttleVars, streamVars, ruleVars, schedVars, helmetVars, inactVars, notifyVars, registryVars, orchVars, sinkVars, cameraVars, reloadVars, workerVars, lazyVars, hlsVars, captureVars, dloopVars, routeVars>>
notRegistry == <<throttleVars, streamVars, ruleVars, schedVars, helmetVars, inactVars, notifyVars, samplerVars, orchVars, sinkVars, cameraVars, reloadVars, workerVars, lazyVars, hlsVars, captureVars, dloopVars, routeVars>>
notOrch == <<throttleVars, streamVars, ruleVars, schedVars, helmetVars, inactVars, notifyVars, samplerVars, registryVars, sinkVars, cameraVars, reloadVars, workerVars, lazyVars, hlsVars, captureVars, dloopVars, routeVars>>
notSink == <<streamVars, ruleVars, schedVars, helmetVars, inactVars, notifyVars, samplerVars, registryVars, orchVars, cameraVars, reloadVars, workerVars, lazyVars, hlsVars, captureVars, dloopVars, routeVars>>
notCameras == <<throttleVars, streamVars, ruleVars, schedVars, helmetVars, inactVars, notifyVars, samplerVars, registryVars, orchVars, sinkVars, reloadVars, workerVars, lazyVars, hlsVars, captureVars, dloopVars, routeVars>>
notReload == <<throttleVars, streamVars, ruleVars, schedVars, helmetVars, inactVars, notifyVars, samplerVars, registryVars, orchVars, sinkVars, cameraVars, workerVars, lazyVars, hlsVars, captureVars, dloopVars, routeVars>>
notRuleReload == <<throttleVars, streamVars, schedVars, helmetVars, inactVars, notifyVars, samplerVars, registryVars, orchVars, sinkVars, cameraVars, workerVars, lazyVars, hlsVars, captureVars, dloopVars, routeVars>>
notRuleRoute == <<throttleVars, streamVars, schedVars, helmetVars, inactVars, notifyVars, samplerVars, registryVars, orchVars, sinkVars, cameraVars, reloadVars, workerVars, lazyVars, hlsVars, captureVars, dloopVars>>
notWorkers == <<throttleVars, streamVars, ruleVars, schedVars, helmetVars, inactVars, notifyVars, samplerVars, registryVars, orchVars, sinkVars, cameraVars, reloadVars, lazyVars, hlsVars, captureVars, dloopVars, routeVars>>
notNotifyWorkers == <<throttleVars, streamVars, ruleVars, schedVars, helmetVars, inactVars, samplerVars, registryVars, orchVars, sinkVars, cameraVars, reloadVars, lazyVars, hlsVars, captureVars, dloopVars, routeVars>>
notLazy == <<throttleVars, streamVars, ruleVars, schedVars, helmetVars, inactVars, notifyVars, samplerVars, registryVars, orchVars, sinkVars, cameraVars, reloadVars, workerVars, hlsVars, captureVars, dloopVars, routeVars>>
notHLS == <<throttleVars, streamVars, ruleVars, schedVars, helmetVars, inactVars, notifyVars, samplerVars, registryVars, orchVars, sinkVars, cameraVars, reloadVars, workerVars, lazyVars, captureVars, dloopVars, routeVars>>
notCapture == <<throttleVars, streamVars, ruleVars, schedVars, helmetVars, inactVars, notifyVars, samplerVars, registryVars, orchVars, sinkVars, cameraVars, reloadVars, workerVars, lazyVars, hlsVars, dloopVars, routeVars>>
notDLoop == <<throttleVars, streamVars, ruleVars, schedVars, helmetVars, inactVars, notifyVars, samplerVars, registryVars, orchVars, sinkVars, cameraVars, reloadVars, workerVars, lazyVars, hlsVars, captureVars, routeVars>>
notRoute == <<throttleVars, streamVars, ruleVars, schedVars, helmetVars, inactVars, notifyVars, samplerVars, registryVars, orchVars, sinkVars, cameraVars, reloadVars, workerVars, lazyVars, hlsVars, captureVars, dloopVars>>

Callers == 1..NumCallers      \* the threads that call into a manager
NoTime == -1                  \* dict.get(person_id) -> None

vars == <<throttleVars, streamVars, ruleVars, extraVars>>

notThrottle == <<streamVars, ruleVars, extraVars>>   \* what the throttle managers leave alone
notStream == <<throttleVars, ruleVars, extraVars>>   \* what a stream client leaves alone
notRules == <<throttleVars, streamVars, extraVars>>  \* what the rule engine leaves alone

(***************************************************************************)
(* Rule engine: data                                                       *)
(***************************************************************************)
NoType == ""                  \* stream_source_type is None / empty
NoPerson == ""                \* person_id is None
NoReload == -1                \* last_reload_time is None
NoRuleId == 0                 \* the rule returned is None

\* the streams of the deployment: each id with the type it was added under
Streams == { [id |-> "cam1", type |-> "rtsp"], [id |-> "cam3", type |-> "rtsp"],
             [id |-> "cam2", type |-> "webcam"] }
QueryTypes == {"face", "drowsiness"}      \* detection_type of a query
QueryPersons == {NoPerson, "person_001", "person_002"}
TriggerPersons == {NoPerson, "person_001"}    \* person_id given with a confidence
Confidences == {75, 80, 82}   \* confidence, in hundredths

\* the instants datetime.now() takes: weekday() + 1 and the time of day in minutes
Timeline == << [weekday |-> 1, minutes |-> 1020], [weekday |-> 1, minutes |-> 1021],
               [weekday |-> 2, minutes |-> 480] >>

\* seconds from the start of the week to instant i
Seconds(i) == ((Timeline[i].weekday - 1) * 1440 + Timeline[i].minutes) * 60

NoSchedule == [weekdays |-> {}, time_ranges |-> <<>>]       \* schedule_config or {}
WeekdaySchedule == [weekdays |-> {1}, time_ranges |-> <<>>]
RangeSchedule == [weekdays |-> {},
                  time_ranges |-> << [start |-> "08:00", end |-> "17:00"] >>]

\* one row of detection_rules (api/models.py DetectionRule), without its rule_id
Row(ty, ids, ps, dt, thr, prio, on, cfg, en) ==
    [stream_source_type |-> ty, stream_source_ids |-> ids, person_ids |-> ps,
     detection_types |-> dt, confidence_threshold |-> thr, priority |-> prio,
     schedule_enabled |-> on, schedule_config |-> cfg, enabled |-> en]

\* the rows a detection_rules table is filled from: each filter alone, on a
\* face rule or on a helmet/drowsiness rule, at two priorities and thresholds
RuleRows ==
    { Row(NoType, {}, {}, {"face"}, 80, 0, FALSE, NoSchedule, TRUE),
      Row(NoType, {}, {}, {"helmet", "drowsiness"}, 70, 1, FALSE, NoSchedule, TRUE),
      Row("rtsp", {}, {}, {"face"}, 70, 1, FALSE, NoSchedule, TRUE),
      Row(NoType, {"cam1"}, {}, {"helmet", "drowsiness"}, 80, 0, FALSE, NoSchedule, TRUE),
      Row(NoType, {}, {"person_001"}, {"face"}, 80, 1, FALSE, NoSchedule, TRUE),
      Row(NoType, {}, {"person_001"}, {"helmet", "drowsiness"}, 80, 0, FALSE,
          NoSchedule, TRUE),
      Row(NoType, {}, {}, {"face"}, 70, 0, TRUE, WeekdaySchedule, TRUE),
      Row(NoType, {}, {}, {"helmet", "drowsiness"}, 80, 1, TRUE, RangeSchedule, TRUE),
      Row(NoType, {}, {}, {"face"}, 70, 1, FALSE, NoSchedule, FALSE) }

\* a row with its rule_id (unique in the table)
WithId(row, id) ==
    [rule_id |-> id, stream_source_type |-> row.stream_source_type,
     stream_source_ids |-> row.stream_source_ids, person_ids |-> row.person_ids,
     detection_types |-> row.detection_types,
     confidence_threshold |-> row.confidence_threshold, priority |-> row.priority,
     schedule_enabled |-> row.schedule_enabled, schedule_config |-> row.schedule_config,
     enabled |-> row.enabled]

\* the tables of at most MaxRules rows
Stores ==
    UNION { { [i \in 1..n |-> WithId(rows[i], i)] : rows \in [1..n -> RuleRows] } :
            n \in 0..MaxRules }

NoQuery == [op |-> "none", stream_id |-> "cam1", stream_type |-> "rtsp",
            detection_type |-> "face", confidence |-> 75, person_id |-> NoPerson,
            at |-> 1]
NoResult == [types |-> {}, rules |-> <<>>, trigger |-> FALSE, rule_id |-> NoRuleId,
             reloaded |-> FALSE]

\* the schedules and instants _check_schedule is evaluated on
TimeStrings == {"08:00", "17:00", "8am"}
TimeRanges == [start : TimeStrings, end : TimeStrings]
ScheduleConfigs ==
    [weekdays : SUBSET {1, 2},
     time_ranges : UNION { [1..n -> TimeRanges] : n \in 0..MaxRanges }]
Instants == [weekday : {1, 3}, minutes : {0, 1, 480, 1019, 1020, 1021}]

NoEvaluation == [done |-> FALSE, schedule_enabled |-> FALSE, schedule_config |-> NoSchedule,
                 now |-> [weekday |-> 1, minutes |-> 0], active |-> FALSE]

\* HelmetViolationManager before its first frame: nothing detected, returned,
\* recorded (violation_records) or counted (stats['total_violations'])
NoHelmetFrame == [done |-> FALSE, faces |-> <<>>, violations |-> <<>>,
                  detector_calls |-> 0, returned |-> <<>>, violation_records |-> 0,
                  total_violations |-> 0, last_before |-> <<>>]

\* a caller of InactivityDetectionManager.process_frame that is not in it
IdleInactivityCall == [pc |-> "idle", current_time |-> 0, has_face |-> FALSE,
                       motion |-> FALSE, face_seen |-> 0, motion_seen |-> 0]

\* InactivityDetectionManager after the camera's first frame, processed at tick 0
\* (_initialize_camera_state); NoTime is last_detection_time = None
InactivityStart ==
    /\ camera_state = [last_face_time |-> 0, last_motion_time |-> 0,
                       last_detection_time |-> NoTime]
    /\ iclock = 0
    /\ icall = [c \in Callers |-> IdleInactivityCall]
    /\ ievents = [t \in 0..MaxITime |-> 0]
    /\ iframes = [face |-> 0, motion |-> 0]

\* a notification nobody has submitted
NoJob == [state |-> "none", use_async |-> FALSE, by |-> "none", attempts |-> 0,
          failed_updates |-> 0, returned |-> "none"]

\* a thread that is not inside the sender
IdleSend == [pc |-> "idle", job |-> 0, attempt |-> 0]

\* NotificationSender.__init__: no worker thread, an empty Queue(), zero
\* counters.  endpoint is the receiving side: "down" fails every request.
NotifyStart(async_mode, retry_attempts, endpoint) ==
    /\ nsender = [async_mode |-> async_mode, retry_attempts |-> retry_attempts,
                 is_running |-> FALSE, endpoint |-> endpoint]
    /\ notification_queue = <<>>
    /\ stats = [total_sent |-> 0, successful_sent |-> 0, failed_sent |-> 0]
    /\ ncall = [c \in Callers |-> IdleSend]
    /\ nworker = [pc |-> "off", job |-> 0, attempt |-> 0]
    /\ jobs = [j \in 1..MaxJobs |-> NoJob]

\* UniversalStreamManager.initialize_streams with one stream: not started, no
\* handler, last_processing_time[stream_id] = 0 on the epoch clock, which is
\* processing_interval or more before any time.time() (tick 0 here)
SamplerStart ==
    /\ ptime = 0
    /\ pstream = [is_running |-> FALSE, frame_callback |-> FALSE, queued |-> <<>>,
                  captured |-> 0]
    /\ frame_callbacks = FALSE
    /\ last_processing_time = 0 - processing_interval
    /\ ploop = [pc |-> "idle", current_time |-> 0, got |-> 0, newest |-> 0]
    /\ handler_calls = [before |-> NoTime, last |-> NoTime, frame |-> 0, newest_before |-> 0]

\* UniversalStreamManager.__init__: self.streams = {}
RegistryStart ==
    /\ reg_streams = {}
    /\ reg_created = 0
    /\ reg_op = [op |-> "none", id |-> "", result |-> FALSE, before |-> {}]

\* the category managers and detectors _process_frame dispatches to
Managers == {"face", "inactivity", "helmet", "drowsiness"}

NoHandlerRun == [camera_id |-> "", enabled_detection_types |-> {}, calls |-> <<>>,
                 raised |-> "none", caught_in |-> "none", before |-> [m \in Managers |-> 0]]

\* MonitoringSystem.__init__: not running, no monitoring thread, every manager
\* and detector None
OrchStart ==
    /\ osys = [initialized |-> FALSE, is_running |-> FALSE, monitoring_thread |-> "none"]
    /\ omanagers = {}
    /\ ostate = [m \in Managers |-> 0]
    /\ ototal = 0
    /\ oframe = NoHandlerRun
    /\ oafter = [failed |-> FALSE, later |-> {}]
    /\ oshut = [face_mesh |-> "none", stops |-> 0, stopped |-> FALSE, raised |-> "none"]

\* no detection handled yet
SinkStart ==
    sink = [handled |-> FALSE, kind |-> "helmet", person_id |-> "unknown",
            current_time |-> 0, should |-> FALSE, image_path |-> "None",
            save_raised |-> FALSE, send_raised |-> FALSE, returned |-> "none",
            prior |-> NoTime,
            failed_accept |-> [k \in {"helmet", "face"}, p \in {"person_001", "unknown"}
                                  |-> NoTime]]

\* camera_id not in self.camera_states
NoCameraState == [known |-> FALSE, last_face_time |-> NoTime,
                  last_motion_time |-> NoTime, last_detection_time |-> NoTime]

\* InactivityDetectionManager.__init__: self.camera_states = {}
CamerasStart ==
    /\ camera_states = [c \in {"cam1", "cam2"} |-> NoCameraState]
    /\ cam_alone = [c \in {"cam1", "cam2"} |-> NoCameraState]
    /\ cam_op = [camera_id |-> "", raised |-> FALSE, alone_raised |-> FALSE]

\* the threads whose frames reach MonitoringSystem._process_frame
ReaderThreads == {"capture", "monitoring"}

\* a thread outside get_enabled_detection_types
IdleReader == [pc |-> "idle", rows |-> <<>>, i |-> 1, failed |-> FALSE,
               before |-> <<>>, has_read |-> FALSE, seen |-> <<>>, complete |-> TRUE]

\* no thread has called the rule engine
ReloadStart ==
    /\ rthread = [t \in ReaderThreads |-> IdleReader]
    /\ last_complete = <<>>
    /\ reload_failure = FALSE

\* no start_async_worker yet: no thread, self.worker_thread = None (0)
WorkersStart ==
    /\ wthreads = [k \in 1..MaxWorkerThreads |-> [pc |-> "unborn", job |-> 0, attempt |-> 0]]
    /\ wctl = [pc |-> "idle", op |-> "none", worker_thread |-> 0]

\* the threads that call the LazyDetectorManager
LazyThreads == {"t1", "t2", "t3"}

\* a thread outside the manager; returned is "none" before its first return
IdleLazy == [pc |-> "idle", returned |-> "none"]

\* LazyDetectorManager.__init__: no detector, the lock free
LazyStart ==
    /\ lazy = [loaded |-> FALSE, lock |-> "", loading |-> {}]
    /\ lcall = [t \in LazyThreads |-> IdleLazy]

\* HLSStream.__init__: no playlist, current_segment_index = 0, no thread
HLSStart ==
    hls = [pc |-> "unstarted", is_running |-> FALSE, is_endlist |-> FALSE,
           segments |-> 0, current_segment_index |-> 0, fetches |-> 0, spins |-> 0]

\* BaseStream.__init__ and set_error_callback: not started, no error yet
CaptureStart ==
    cap_loop = [cls |-> "none", pc |-> "unstarted", is_running |-> FALSE,
                is_connected |-> FALSE, reconnect_count |-> 0, error |-> "none", reported |-> FALSE, frames |-> 0]

\* MonitoringSystem before start(): no monitoring thread
DLoopStart ==
    dloop = [is_running |-> FALSE, pc |-> "unstarted", used |-> 0, passed |-> 0,
             raised |-> "none"]

\* no frame routed yet
NoRouted == [done |-> FALSE, stream_id |-> "cam1", stream_type |-> "rtsp",
             detection_type |-> "face", confidence |-> 75, person_id |-> NoPerson,
             at |-> 1, by |-> "none", produced |-> FALSE]
RouteStart ==
    routed = NoRouted

\* the remaining parts before their first operation
MoreStart ==
    /\ RegistryStart
    /\ OrchStart
    /\ SinkStart
    /\ CamerasStart
    /\ ReloadStart
    /\ WorkersStart
    /\ LazyStart
    /\ HLSStart
    /\ CaptureStart
    /\ DLoopStart
    /\ RouteStart

\* the parts that hold no state before their first operation
ExtraStart ==
    /\ sched = NoEvaluation
    /\ hframe = NoHelmetFrame
    /\ InactivityStart
    /\ NotifyStart(TRUE, MaxRetry, "down")
    /\ SamplerStart
    /\ MoreStart

\* RuleEngineManager.__init__, with the table as it stands
RulesStart(table) ==
    /\ store = table
    /\ rules_cache = <<>>
    /\ last_reload_time = NoReload
    /\ rnow = 1
    /\ query = NoQuery
    /\ result = NoResult

(***************************************************************************)
(* One stream client: BaseStream with RTSPStream / HTTPStream               *)
(***************************************************************************)
Workers == 1..NumWorkers
NoThread == 0                 \* self.thread = None
NoFrame == 0

NewWorker == [pc |-> "unborn", frame |-> NoFrame]

\* BaseStream.__init__ (and the subclass chosen by StreamFactory.create_stream)
StreamStart(cls) ==
    /\ stream_class = cls
    /\ is_running = FALSE
    /\ is_connected = FALSE
    /\ thread = NoThread
    /\ reconnect_count = 0
    /\ frame_queue = <<>>
    /\ worker = [w \in Workers |-> NewWorker]
    /\ ctl = "idle"
    /\ captured = 0
    /\ consumed = FALSE
    /\ stopped = FALSE
    /\ attempts = 0

(***************************************************************************)
(* Throttle managers                                                       *)
(***************************************************************************)
Kinds == {"helmet", "face"}
PersonIds == {"person_001", "unknown"}
NoPath == "None"              \* image_path = None
Saved == "saved.jpg"          \* a path returned by the screenshot store

IdleCall == [pc |-> "idle", kind |-> "helmet", person_id |-> "unknown",
             current_time |-> 0, should |-> FALSE, image_path |-> NoPath]

\* HelmetViolationManager._should_take_screenshot
should_take_screenshot(last, person_id, current_time) ==
    IF last[person_id] = NoTime
    THEN TRUE
    ELSE current_time - last[person_id] >= CoolDown

should_send_notification_to_anyone(last, person_id, current_time) ==
    IF last[person_id] = NoTime
    THEN TRUE
    ELSE current_time - last[person_id] >= CoolDown

\* FaceDetectionManager._should_send_notification
should_send_notification(last, person_id, current_time) ==
    IF person_id = "unknown"
    THEN FALSE
    ELSE IF last[person_id] = NoTime
         THEN TRUE
         ELSE current_time - last[person_id] >= CoolDown

\* the managers as constructed
ThrottleStart ==
    /\ last_screenshot_time = [p \in PersonIds |-> NoTime]
    /\ last_notification_time = [p \in PersonIds |-> NoTime]
    /\ screenshot_manager \in [Kinds -> BOOLEAN]
    /\ notification_sender \in [Kinds -> BOOLEAN]
    /\ clock = 0
    /\ call = [c \in Callers |-> IdleCall]
    /\ results = [k \in Kinds, p \in PersonIds, t \in 0..MaxClock |->
                    [acc |-> 0, rej |-> 0]]
    /\ overlapped = FALSE
    /\ capture_failed = FALSE

\* the managers as the orchestrator builds them (both sinks given), not yet used
ThrottleIdle ==
    /\ ThrottleStart
    /\ screenshot_manager = [k \in Kinds |-> TRUE]
    /\ notification_sender = [k \in Kinds |-> TRUE]

ThrottleInit == ThrottleStart /\ StreamStart("rtsp") /\ RulesStart(<<>>) /\ ExtraStart

RECURSIVE SumOver(_, _)
\* the sum of f[x] over the finite set S
SumOver(f, S) ==
    IF S = {} THEN 0
    ELSE LET x == CHOOSE y \in S : TRUE IN f[x] + SumOver(f, S \ {x})

\* the number of result dicts returned so far
NumResults ==
    SumOver([x \in DOMAIN results |-> results[x].acc + results[x].rej], DOMAIN results)

\* time passes
Tick ==
    /\ clock < MaxClock
    /\ clock' = clock + 1
    /\ UNCHANGED <<last_screenshot_time, last_notification_time, screenshot_manager,
                   notification_sender, call, results, overlapped, capture_failed>>
    /\ UNCHANGED notThrottle

\* process_frame: current_time = datetime.now(), then _process_single_* is entered
\* for one detection of the frame
\* (callers are interchangeable threads: the lowest idle one takes the call)
ProcessFrame(c, kind, person_id) ==
    /\ call[c].pc = "idle"
    /\ \A d \in Callers : d < c => call[d].pc # "idle"
    /\ NumResults + Cardinality({d \in Callers : call[d].pc # "idle"}) < MaxResults
    /\ call' = [call EXCEPT ![c] = [pc |-> "decide", kind |-> kind,
                                    person_id |-> person_id, current_time |-> clock,
                                    should |-> FALSE, image_path |-> NoPath]]
    /\ overlapped' = (overlapped \/ \E d \in Callers : call[d].pc # "idle")
    /\ UNCHANGED <<last_screenshot_time, last_notification_time, screenshot_manager,
                   notification_sender, clock, results, capture_failed>>
    /\ UNCHANGED notThrottle

\* the value of should_screenshot / should_notify for the frame f of a call
decision(f) ==
    IF f.kind = "helmet"
    THEN should_take_screenshot(last_screenshot_time, f.person_id, f.current_time)
    ELSE should_send_notification(last_notification_time, f.person_id, f.current_time)

\* should = self._should_take_screenshot(...) / self._should_send_notification(...),
\* read under the lock; then, outside the lock,
\* if should and self.screenshot_manager: image_path = take_screenshot(...)
\* (the store returns a path, or None when the image cannot be written; the capture
\* touches no shared state, so it is taken in the same step as the read)
Decide(c) ==
    /\ call[c].pc = "decide"
    /\ \E path \in {Saved, NoPath} :
         LET should == decision(call[c])
             captures == should /\ screenshot_manager[call[c].kind]
         IN /\ captures \/ path = NoPath
            /\ call' = [call EXCEPT ![c].pc = "update",
                                    ![c].should = should,
                                    ![c].image_path = path]
            /\ capture_failed' = (capture_failed \/ (captures /\ path = NoPath))
    /\ UNCHANGED <<last_screenshot_time, last_notification_time, screenshot_manager,
                   notification_sender, clock, results, overlapped>>
    /\ UNCHANGED notThrottle

\* helmet: if should_screenshot and image_path: last_screenshot_time[person_id] = current_time
helmet_update(last, f) ==
    IF f.should /\ f.image_path # NoPath
    THEN [last EXCEPT ![f.person_id] = f.current_time]
    ELSE last

\* face: if should_notify and self.notification_sender and image_path:
\*           send; last_notification_time[person_id] = current_time
face_update(last, f, sender) ==
    IF f.should /\ sender /\ f.image_path # NoPath
    THEN [last EXCEPT ![f.person_id] = f.current_time]
    ELSE last

\* the rest of _process_single_*: the record is saved, the timestamp is updated
\* under the lock, and the result dict is returned
UpdateAndReturn(c) ==
    /\ call[c].pc = "update"
    /\ last_screenshot_time' =
         IF call[c].kind = "helmet"
         THEN helmet_update(last_screenshot_time, call[c])
         ELSE last_screenshot_time
    /\ last_notification_time' =
         IF call[c].kind = "face"
         THEN face_update(last_notification_time, call[c], notification_sender["face"])
         ELSE last_notification_time
    /\ results' = [results EXCEPT ![call[c].kind, call[c].person_id, call[c].current_time] =
                       IF call[c].should
                       THEN [@ EXCEPT !.acc = @ + 1]
                       ELSE [@ EXCEPT !.rej = @ + 1]]
    /\ call' = [call EXCEPT ![c] = IdleCall]
    /\ UNCHANGED <<screenshot_manager, notification_sender, clock, overlapped,
                   capture_failed>>
    /\ UNCHANGED notThrottle

ThrottleNext ==
    \/ Tick
    \/ \E c \in Callers, kind \in Kinds, person_id \in PersonIds :
         ProcessFrame(c, kind, person_id)
    \/ \E c \in Callers : Decide(c)
    \/ \E c \in Callers : UpdateAndReturn(c)

SpecThrottle == ThrottleInit /\ [][ThrottleNext]_vars

(***************************************************************************)
(* Claims about the throttle managers                                      *)
(***************************************************************************)
Times == 0..MaxClock

\* no call for (k, p, t) is still in progress
NoneInFlight(k, p, t) ==
    \A c \in Callers :
        call[c].pc = "idle" \/ call[c].kind # k \/ call[c].person_id # p
                            \/ call[c].current_time # t

\* no accepted decision for (k, p) lies less than the cool-down before t
Eligible(k, p, t) ==
    \A u \in Times : (u < t /\ t - u < CoolDown) => results[k, p, u].acc = 0

\* the manager of kind k has every sink it needs, and no capture has failed
SinksWork(k) ==
    /\ screenshot_manager[k]
    /\ (k = "face" => notification_sender[k])
    /\ ~capture_failed

\* C1: when two or more callers ran the cool-down decision for one subject key at one
\* logical instant (and the key was eligible, the sinks being configured and working),
\* exactly one of them was accepted.
C1_ExactlyOneAccepted ==
    \A k \in Kinds, t \in Times :
        LET p == "person_001" IN
        (/\ SinksWork(k)
         /\ NoneInFlight(k, p, t)
         /\ results[k, p, t].acc + results[k, p, t].rej >= 2
         /\ Eligible(k, p, t))
        => results[k, p, t].acc = 1

\* C2: after any sequence of frames (one call at a time), whatever the sinks are and
\* do, no subject key has two accepted decisions less than the cool-down apart.
C2_NoTwoAcceptedInsideCoolDown ==
    ~overlapped =>
        \A k \in Kinds, p \in PersonIds, t \in Times :
            /\ results[k, p, t].acc <= 1
            /\ results[k, p, t].acc = 1 => Eligible(k, p, t)

\* C3: for sequential decisions on one (resolved) subject key, a decision is accepted
\* iff the key has no prior acceptance or the last one is at least the cool-down old:
\* of the decisions taken at instant t the first is accepted when no acceptance lies
\* inside the window before t, and none is otherwise.
C3_AcceptedIffElapsed ==
    ~overlapped =>
        \A k \in Kinds, t \in Times :
            LET p == "person_001"
                r == results[k, p, t]
            IN (r.acc + r.rej > 0) =>
                   r.acc = (IF Eligible(k, p, t) THEN 1 ELSE 0)

\* C14: FaceDetectionManager never accepts a detection whose identity is
\* 'unknown': no screenshot is taken for it, no notification is sent (the result
\* never says notification_sent) and no cool-down timestamp is created for it,
\* in any state and however often it recurs, concurrent calls included.
C14_UnknownNeverAccepted ==
    /\ last_notification_time["unknown"] = NoTime
    /\ \A t \in Times : results["face", "unknown", t].acc = 0
    /\ \A c \in Callers :
          (call[c].pc = "update" /\ call[c].kind = "face"
              /\ call[c].person_id = "unknown")
          => (~call[c].should /\ call[c].image_path = NoPath)

\* an unknown face was processed twice at one instant, by overlapping calls,
\* after a known person had been accepted
C14_Witness ==
    /\ overlapped
    /\ \E t \in Times :
          /\ results["face", "unknown", t].rej = 2
          /\ results["face", "person_001", t].acc = 1

(***************************************************************************)
(* Stream client operations                                                *)
(***************************************************************************)
\* Queue.full()
full(q) == Len(q) >= buffer_size

\* a queue that gives up its newest entry instead of its oldest
get_nowait_newest(q) == SubSeq(q, 1, Len(q) - 1)

\* Queue.get_nowait() on a non-empty queue: the oldest entry leaves
get_nowait(q) == Tail(q)

\* Queue.put(item) once there is room: the entry joins at the back
put(q, item) == Append(q, item)

\* places where a capture thread can sit for longer than stop_capture's 5 s join:
\* a blocking read, the reconnect sleep and connect, a put on a full queue
Blocked(w) ==
    \/ worker[w].pc \in {"read", "connect"}
    \/ worker[w].pc = "put" /\ full(frame_queue)

\* the lowest worker not yet started
NextWorker == CHOOSE w \in Workers : worker[w].pc = "unborn" /\
                  \A v \in Workers : v < w => worker[v].pc # "unborn"

\* BaseStream.start_capture
StartCapture ==
    /\ ctl = "idle"
    /\ ~is_running
    /\ \E w \in Workers : worker[w].pc = "unborn"
    /\ \E ok \in BOOLEAN :
         IF ok
         THEN /\ is_connected' = TRUE
              /\ reconnect_count' = 0
              /\ is_running' = TRUE
              /\ thread' = NextWorker
              /\ worker' = [worker EXCEPT ![NextWorker].pc = "loop"]
              /\ attempts' = IF stream_class = "rtsp" THEN 0 ELSE attempts
         ELSE /\ is_connected' = FALSE
              /\ UNCHANGED <<reconnect_count, is_running, thread, worker, attempts>>
    /\ UNCHANGED <<stream_class, frame_queue, ctl, captured, consumed, stopped>>
    /\ UNCHANGED notStream

\* BaseStream.stop_capture: self.is_running = False
StopCapture ==
    /\ ctl = "idle"
    /\ ctl' = IF thread = NoThread THEN "disconnect" ELSE "join"
    /\ is_running' = FALSE
    /\ stopped' = TRUE
    /\ UNCHANGED <<stream_class, is_connected, thread, reconnect_count, frame_queue,
                   worker, captured, consumed, attempts>>
    /\ UNCHANGED notStream

\* self.thread.join(timeout=5): the thread has ended, or the 5 s pass while it is blocked
StopJoin ==
    /\ ctl = "join"
    /\ worker[thread].pc = "exited" \/ Blocked(thread)
    /\ ctl' = "disconnect"
    /\ UNCHANGED <<stream_class, is_running, is_connected, thread, reconnect_count,
                   frame_queue, worker, captured, consumed, stopped, attempts>>
    /\ UNCHANGED notStream

\* self.disconnect()
StopDisconnect ==
    /\ ctl = "disconnect"
    /\ ctl' = "drain"
    /\ is_connected' = FALSE
    /\ UNCHANGED <<stream_class, is_running, thread, reconnect_count, frame_queue,
                   worker, captured, consumed, stopped, attempts>>
    /\ UNCHANGED notStream

\* while not self.frame_queue.empty(): self.frame_queue.get_nowait()
StopDrain ==
    /\ ctl = "drain"
    /\ IF frame_queue = <<>>
       THEN /\ ctl' = "idle"
            /\ UNCHANGED <<frame_queue, consumed>>
       ELSE /\ frame_queue' = get_nowait(frame_queue)
            /\ consumed' = TRUE
            /\ UNCHANGED ctl
    /\ UNCHANGED <<stream_class, is_running, is_connected, thread, reconnect_count,
                   worker, captured, stopped, attempts>>
    /\ UNCHANGED notStream

\* BaseStream.get_latest_frame, called by the dispatch sampler or the live-video
\* reader, when a frame is queued (on an empty queue it returns None, changing nothing)
GetLatestFrame ==
    /\ frame_queue # <<>>
    /\ frame_queue' = get_nowait(frame_queue)
    /\ consumed' = TRUE
    /\ UNCHANGED <<stream_class, is_running, is_connected, thread, reconnect_count,
                   worker, ctl, captured, stopped, attempts>>
    /\ UNCHANGED notStream

\* _capture_loop: while self.is_running: if not self.is_connected: reconnect ...
LoopTop(w) ==
    /\ worker[w].pc = "loop"
    /\ worker' = [worker EXCEPT ![w].pc =
                      IF ~is_running THEN "exited"
                      ELSE IF ~is_connected THEN "reconnect"
                      ELSE "read"]
    /\ UNCHANGED <<stream_class, is_running, is_connected, thread, reconnect_count,
                   frame_queue, ctl, captured, consumed, stopped, attempts>>
    /\ UNCHANGED notStream

\* ret, frame = self.cap.read() (RTSP) / self._stream_frames() (HTTP): a frame arrives
ReadFrame(w) ==
    /\ worker[w].pc = "read"
    /\ captured < MaxFrames
    /\ captured' = captured + 1
    /\ worker' = [worker EXCEPT ![w].pc = "put_enter", ![w].frame = captured + 1]
    /\ attempts' = 0
    /\ UNCHANGED <<stream_class, is_running, is_connected, thread, reconnect_count,
                   frame_queue, ctl, consumed, stopped>>
    /\ UNCHANGED notStream

\* the read fails (ret false, frame None) or the request / stream raises:
\* the loop calls self._reconnect()
ReadFails(w) ==
    /\ worker[w].pc = "read"
    /\ worker' = [worker EXCEPT ![w].pc = "reconnect"]
    /\ UNCHANGED <<stream_class, is_running, is_connected, thread, reconnect_count,
                   frame_queue, ctl, captured, consumed, stopped, attempts>>
    /\ UNCHANGED notStream

\* HTTPStream._process_image_data: the image does not decode; a warning is logged and
\* _stream_frames returns normally: the loop goes round without a frame
ParseFails(w) ==
    /\ worker[w].pc = "read"
    /\ stream_class = "http"
    /\ worker' = [worker EXCEPT ![w].pc = "loop"]
    /\ UNCHANGED <<stream_class, is_running, is_connected, thread, reconnect_count,
                   frame_queue, ctl, captured, consumed, stopped, attempts>>
    /\ UNCHANGED notStream

\* _reconnect, first half: the attempt bound, the count, disconnect()
Reconnect(w) ==
    /\ worker[w].pc = "reconnect"
    /\ reconnect_count >= max_reconnect_attempts \/ attempts < MaxAttempts
    /\ IF reconnect_count >= max_reconnect_attempts
       THEN /\ is_running' = FALSE
            /\ worker' = [worker EXCEPT ![w].pc = "exited"]
            /\ UNCHANGED <<reconnect_count, is_connected, attempts>>
       ELSE /\ reconnect_count' = reconnect_count + 1
            /\ is_connected' = FALSE
            /\ attempts' = attempts + 1
            /\ worker' = [worker EXCEPT ![w].pc = "connect"]
            /\ UNCHANGED is_running
    /\ UNCHANGED <<stream_class, thread, frame_queue, ctl, captured, consumed, stopped>>
    /\ UNCHANGED notStream

\* _reconnect, second half: time.sleep(self.reconnect_delay); if self.connect(): return
\* True (the loop continues); return False (the loop breaks)
\* (RTSPStream.connect reads an initial frame, HTTPStream.connect only opens the URL)
Connect(w) ==
    /\ worker[w].pc = "connect"
    /\ \E ok \in BOOLEAN :
         IF ok
         THEN /\ is_connected' = TRUE
              /\ reconnect_count' = 0
              /\ attempts' = IF stream_class = "rtsp" THEN 0 ELSE attempts
              /\ worker' = [worker EXCEPT ![w].pc = "loop"]
         ELSE /\ is_connected' = FALSE
              /\ worker' = [worker EXCEPT ![w].pc = "exited"]
              /\ UNCHANGED <<reconnect_count, attempts>>
    /\ UNCHANGED <<stream_class, is_running, thread, frame_queue, ctl, captured,
                   consumed, stopped>>
    /\ UNCHANGED notStream

\* _put_frame: if not self.is_running: return; ...; if self.frame_queue.full():
PutEnter(w) ==
    /\ worker[w].pc = "put_enter"
    /\ worker' = [worker EXCEPT ![w].pc =
                      IF ~is_running THEN "loop"
                      ELSE IF full(frame_queue) THEN "put_evict"
                      ELSE "put"]
    /\ UNCHANGED <<stream_class, is_running, is_connected, thread, reconnect_count,
                   frame_queue, ctl, captured, consumed, stopped, attempts>>
    /\ UNCHANGED notStream

\* try: self.frame_queue.get_nowait() except Empty: pass
PutEvict(w) ==
    /\ worker[w].pc = "put_evict"
    /\ frame_queue' = IF frame_queue = <<>> THEN frame_queue ELSE get_nowait(frame_queue)
    /\ worker' = [worker EXCEPT ![w].pc = "put"]
    /\ UNCHANGED <<stream_class, is_running, is_connected, thread, reconnect_count,
                   ctl, captured, consumed, stopped, attempts>>
    /\ UNCHANGED notStream

\* self.frame_queue.put(stream_frame): waits for room when the queue is full
Put(w) ==
    /\ worker[w].pc = "put"
    /\ ~full(frame_queue)
    /\ frame_queue' = put(frame_queue, worker[w].frame)
    /\ worker' = [worker EXCEPT ![w].pc = "loop", ![w].frame = NoFrame]
    /\ UNCHANGED <<stream_class, is_running, is_connected, thread, reconnect_count,
                   ctl, captured, consumed, stopped, attempts>>
    /\ UNCHANGED notStream

StreamInit ==
    /\ (\E cls \in {"rtsp", "http"} : StreamStart(cls))
    /\ ThrottleIdle /\ RulesStart(<<>>) /\ ExtraStart

StreamNext ==
    \/ StartCapture
    \/ StopCapture
    \/ StopJoin
    \/ StopDisconnect
    \/ StopDrain
    \/ GetLatestFrame
    \/ \E w \in Workers : LoopTop(w)
    \/ \E w \in Workers : ReadFrame(w)
    \/ \E w \in Workers : ReadFails(w)
    \/ \E w \in Workers : ParseFails(w)
    \/ \E w \in Workers : Reconnect(w)
    \/ \E w \in Workers : Connect(w)
    \/ \E w \in Workers : PutEnter(w)
    \/ \E w \in Workers : PutEvict(w)
    \/ \E w \in Workers : Put(w)

SpecStream == StreamInit /\ [][StreamNext]_vars

(***************************************************************************)
(* Claims about the stream client                                          *)
(***************************************************************************)
\* no capture thread is inside _put_frame
NoPutInProgress == \A w \in Workers : worker[w].pc \notin {"put_enter", "put_evict", "put"}

\* C4: pushing K > Q frames into the frame queue of capacity Q with no consumer leaves
\* exactly Q frames queued, the Q most recently captured ones, in capture order.
C4_KeepsMostRecent ==
    (~consumed /\ ~stopped /\ NoPutInProgress /\ captured > buffer_size)
    => frame_queue = [i \in 1..buffer_size |-> captured - buffer_size + i]

\* C4's case: more frames than the capacity were pushed and none was taken
C4_Witness ==
    /\ ~consumed /\ ~stopped /\ NoPutInProgress
    /\ captured = buffer_size + 2
    /\ Len(frame_queue) = buffer_size

\* C5: a capture worker pushing a frame never blocks: it is never at
\* frame_queue.put with the queue full.
C5_ProducerNeverBlocks ==
    \A w \in Workers : ~(worker[w].pc = "put" /\ full(frame_queue))

\* C6: when the capture loop has ended on its own after losing the connection (every
\* connect since then failed), exactly max_reconnect_attempts connects were attempted
\* and the stream is reported not running.
C6_ExactlyMaxAttemptsThenError ==
    \A w \in Workers :
        (worker[w].pc = "exited" /\ ~stopped)
        => (reconnect_count = max_reconnect_attempts /\ ~is_running)

\* C7: while the source delivers no frame, the stream makes only a bounded number of
\* reconnect attempts (at most max_reconnect_attempts) before its loop stops.
C7_BoundedReconnects ==
    ~stopped => attempts <= max_reconnect_attempts

(***************************************************************************)
(* Rule engine operations                                                  *)
(***************************************************************************)
\* reload_rules, when the query succeeds: the enabled rows, in query order
reload_rules(table) == SelectSeq(table, LAMBDA row : row.enabled)

\* should_reload_rules at instant t
should_reload_rules(last, t) ==
    IF last = NoReload THEN TRUE ELSE Seconds(t) - last > reload_interval

parse_time_end_of_day(time_str) ==
    CASE time_str = "08:00" -> 480
      [] time_str = "17:00" -> 1020
      [] OTHER -> 1439

\* _parse_time: "HH:MM" to minutes of the day; anything else is 00:00
parse_time(time_str) ==
    CASE time_str = "08:00" -> 480
      [] time_str = "17:00" -> 1020
      [] time_str = "23:59" -> 1439
      [] OTHER -> 0

\* _check_schedule when datetime.now() is `now`
check_schedule_at(schedule_config, now) ==
    IF schedule_config = NoSchedule THEN TRUE
    ELSE IF schedule_config.weekdays # {}
            /\ now.weekday \notin schedule_config.weekdays THEN FALSE
    ELSE IF schedule_config.time_ranges # <<>>
            /\ ~ \E i \in DOMAIN schedule_config.time_ranges :
                    /\ parse_time(schedule_config.time_ranges[i].start) <= now.minutes
                    /\ now.minutes <= parse_time(schedule_config.time_ranges[i].end)
         THEN FALSE
    ELSE TRUE

\* _check_schedule at instant t of the Timeline
check_schedule(schedule_config, t) == check_schedule_at(schedule_config, Timeline[t])

\* the `continue` conditions of the two query loops
skip_stream_type(rule, stream_type) ==
    rule.stream_source_type # NoType /\ rule.stream_source_type # stream_type

skip_stream_id_strict(rule, stream_id) == stream_id \notin rule.stream_source_ids

skip_stream_id(rule, stream_id) ==
    rule.stream_source_ids # {} /\ stream_id \notin rule.stream_source_ids

skip_person(rule, detection_type, person_id) ==
    /\ detection_type = "face" /\ rule.person_ids # {}
    /\ (person_id = NoPerson \/ person_id \notin rule.person_ids)

skip_schedule(rule, t) ==
    rule.schedule_enabled /\ ~check_schedule(rule.schedule_config, t)

\* get_enabled_detection_types, after the automatic reload: the loop over the
\* cache from entry i on, enabled_types being the set built so far
RECURSIVE enabled_types_loop(_, _, _, _, _, _)
enabled_types_loop(cache, i, enabled_types, stream_id, stream_type, t) ==
    IF i > Len(cache) THEN enabled_types
    ELSE IF \/ skip_stream_type(cache[i], stream_type)
            \/ skip_stream_id(cache[i], stream_id)
            \/ skip_schedule(cache[i], t)
         THEN enabled_types_loop(cache, i + 1, enabled_types, stream_id, stream_type, t)
    ELSE enabled_types_loop(cache, i + 1, enabled_types \cup cache[i].detection_types,
                            stream_id, stream_type, t)

get_enabled_detection_types(cache, stream_id, stream_type, t) ==
    enabled_types_loop(cache, 1, {}, stream_id, stream_type, t)

\* list.sort(key=priority, reverse=True): stable, equal priorities keep their order
insert_by_priority(sorted, rule) ==
    LET before == SelectSeq(sorted, LAMBDA r : r.priority >= rule.priority)
        after == SelectSeq(sorted, LAMBDA r : r.priority < rule.priority)
    IN  before \o <<rule>> \o after

RECURSIVE sort_by_priority(_, _, _)
sort_by_priority(rules, i, sorted) ==
    IF i > Len(rules) THEN sorted
    ELSE sort_by_priority(rules, i + 1, insert_by_priority(sorted, rules[i]))

\* get_matching_rules, after the automatic reload
get_matching_rules(cache, stream_id, stream_type, detection_type, person_id, t) ==
    LET matching_rules ==
            SelectSeq(cache, LAMBDA rule :
                ~ \/ detection_type \notin rule.detection_types
                  \/ skip_stream_type(rule, stream_type)
                  \/ skip_stream_id(rule, stream_id)
                  \/ skip_person(rule, detection_type, person_id)
                  \/ skip_schedule(rule, t))
    IN  sort_by_priority(matching_rules, 1, <<>>)

\* the threshold test of should_trigger_violation
below_threshold_or_equal(confidence, rule) == confidence <= rule.confidence_threshold

below_threshold(confidence, rule) == confidence < rule.confidence_threshold

\* should_trigger_violation, after the automatic reload: <<triggered, rule_id>>
should_trigger_violation(cache, stream_id, stream_type, detection_type, confidence, person_id, t) ==
    LET matching_rules ==
            get_matching_rules(cache, stream_id, stream_type, detection_type, person_id, t)
    IN  IF matching_rules = <<>> THEN <<FALSE, NoRuleId>>
        ELSE IF below_threshold(confidence, matching_rules[1]) THEN <<FALSE, NoRuleId>>
        ELSE <<TRUE, matching_rules[1].rule_id>>

RuleIds(rules) == [i \in DOMAIN rules |-> rules[i].rule_id]

\* datetime.now() moves on
RTick ==
    /\ rnow < Len(Timeline)
    /\ rnow' = rnow + 1
    /\ UNCHANGED <<store, rules_cache, last_reload_time, query, result>>
    /\ UNCHANGED notRules

\* the automatic reload at the head of every query: reload_rules runs when
\* should_reload_rules says so, and either replaces the cache or fails on the
\* database (ok = FALSE) and leaves cache and reload time as they were
AutoReload ==
    /\ \/ /\ should_reload_rules(last_reload_time, rnow)
          /\ \E ok \in BOOLEAN :
                /\ rules_cache' = IF ok THEN reload_rules(store) ELSE rules_cache
                /\ last_reload_time' = IF ok THEN Seconds(rnow) ELSE last_reload_time
       \/ /\ ~should_reload_rules(last_reload_time, rnow)
          /\ UNCHANGED <<rules_cache, last_reload_time>>
    /\ UNCHANGED <<store, rnow>>

GetEnabledDetectionTypes(stream_id, stream_type) ==
    /\ AutoReload
    /\ query' = [NoQuery EXCEPT !.op = "types", !.stream_id = stream_id,
                                !.stream_type = stream_type, !.at = rnow]
    /\ result' = [NoResult EXCEPT
                    !.types = get_enabled_detection_types(rules_cache', stream_id,
                                                          stream_type, rnow),
                    !.reloaded = (rules_cache' = reload_rules(store)
                                  /\ last_reload_time' = Seconds(rnow))]
    /\ UNCHANGED notRules

GetMatchingRules(stream_id, stream_type, detection_type, person_id) ==
    /\ AutoReload
    /\ query' = [NoQuery EXCEPT !.op = "matching", !.stream_id = stream_id,
                                !.stream_type = stream_type,
                                !.detection_type = detection_type,
                                !.person_id = person_id, !.at = rnow]
    /\ result' = [NoResult EXCEPT
                    !.rules = RuleIds(get_matching_rules(rules_cache', stream_id,
                                  stream_type, detection_type, person_id, rnow))]
    /\ UNCHANGED notRules

ShouldTriggerViolation(stream_id, stream_type, detection_type, confidence, person_id) ==
    /\ AutoReload
    /\ query' = [op |-> "trigger", stream_id |-> stream_id, stream_type |-> stream_type,
                 detection_type |-> detection_type, confidence |-> confidence,
                 person_id |-> person_id, at |-> rnow]
    /\ LET r == should_trigger_violation(rules_cache', stream_id, stream_type,
                                         detection_type, confidence, person_id, rnow)
       IN  result' = [NoResult EXCEPT !.trigger = r[1], !.rule_id = r[2]]
    /\ UNCHANGED notRules

RulesInit ==
    /\ (\E table \in Stores : RulesStart(table))
    /\ ThrottleIdle /\ StreamStart("rtsp") /\ ExtraStart

RulesNext ==
    \/ RTick
    \/ \E stream \in Streams : GetEnabledDetectionTypes(stream.id, stream.type)
    \/ \E stream \in Streams, detection_type \in QueryTypes, person_id \in QueryPersons :
           GetMatchingRules(stream.id, stream.type, detection_type, person_id)
    \/ \E stream \in Streams, detection_type \in QueryTypes,
          confidence \in Confidences, person_id \in TriggerPersons :
           ShouldTriggerViolation(stream.id, stream.type, detection_type, confidence,
                                  person_id)

SpecRules == RulesInit /\ [][RulesNext]_vars

(***************************************************************************)
(* Claims about the rule engine                                            *)
(***************************************************************************)
\* what the claims call a rule admitting a stream at instant t
TypeAdmits(rule, stream_type) ==
    rule.stream_source_type = NoType \/ rule.stream_source_type = stream_type

IdAdmits(rule, stream_id) ==
    rule.stream_source_ids = {} \/ stream_id \in rule.stream_source_ids

ScheduleAdmits(rule, t) ==
    ~rule.schedule_enabled \/ check_schedule(rule.schedule_config, t)

CacheRules == {rules_cache[i] : i \in DOMAIN rules_cache}

\* C8: get_enabled_detection_types returns the union of the detection types of
\* all enabled rules whose stream type filter is absent or equal to the stream's
\* type, whose stream id filter is absent or contains the stream's id, and whose
\* schedule is disabled or active at the instant of the query; the rules it
\* draws from after a reload are exactly the enabled rows of the table.
C8_UnionOfAdmittedRules ==
    query.op = "types" =>
        /\ result.types =
               UNION { rule.detection_types :
                       rule \in { r \in CacheRules :
                                    /\ TypeAdmits(r, query.stream_type)
                                    /\ IdAdmits(r, query.stream_id)
                                    /\ ScheduleAdmits(r, query.at) } }
        /\ result.reloaded =>
               /\ \A i \in DOMAIN store :
                      store[i].enabled <=> store[i] \in CacheRules
               /\ \A r \in CacheRules : r.enabled

\* a query just after a reload whose answer joins the types of a face rule and a
\* helmet/drowsiness rule, both admitted
C8_Witness ==
    /\ query.op = "types"
    /\ result.reloaded
    /\ Len(rules_cache) = 2
    /\ Cardinality(result.types) = 3

\* a query that one rule of the snapshot is kept out of by its stream id filter
C8_WitnessFiltered ==
    /\ query.op = "types"
    /\ result.types # {}
    /\ \E r \in CacheRules : ~IdAdmits(r, query.stream_id)

\* the first entry of what get_matching_rules gives for the last query
TopMatch ==
    get_matching_rules(rules_cache, query.stream_id, query.stream_type,
                       query.detection_type, query.person_id, query.at)

\* C9: should_trigger_violation returns (true, rule) exactly when at least one
\* rule matches and the confidence is greater than or equal to the threshold of
\* the first (highest-priority) match, which is the rule returned; equality
\* triggers, and against a 0.80 threshold 0.75 does not trigger and 0.82 does.
C9_ThresholdInclusive ==
    query.op = "trigger" =>
        /\ result.trigger <=>
               /\ TopMatch # <<>>
               /\ query.confidence >= TopMatch[1].confidence_threshold
        /\ result.trigger => result.rule_id = TopMatch[1].rule_id
        /\ ~result.trigger => result.rule_id = NoRuleId
        /\ (TopMatch # <<>> /\ TopMatch[1].confidence_threshold = 80) =>
               /\ query.confidence = 75 => ~result.trigger
               /\ query.confidence = 80 => result.trigger
               /\ query.confidence = 82 => result.trigger

\* a confidence equal to the top rule's threshold triggers, the top rule having
\* been put first by its priority
C9_Witness ==
    /\ query.op = "trigger"
    /\ query.confidence = 80
    /\ result.trigger
    /\ Len(TopMatch) = 2
    /\ TopMatch[1].confidence_threshold = 80

\* detection types whose detections carry a subject: a face is a recognised
\* person, a drowsiness detection is associated with the person it overlaps
SubjectTypes == {"face", "drowsiness"}

Admissible(rule) ==
    /\ query.detection_type \in rule.detection_types
    /\ TypeAdmits(rule, query.stream_type)
    /\ IdAdmits(rule, query.stream_id)
    /\ (query.detection_type \in SubjectTypes /\ rule.person_ids # {})
           => query.person_id \in rule.person_ids
    /\ ScheduleAdmits(rule, query.at)

CacheRule(id) == CHOOSE r \in CacheRules : r.rule_id = id

CacheIndex(id) == CHOOSE i \in DOMAIN rules_cache : rules_cache[i].rule_id = id

\* C10: get_matching_rules returns exactly the admissible rules (detection type
\* listed, stream type and stream id filters admit, person allow-list admits the
\* subject when the detection type carries one, schedule disabled or active),
\* by priority descending, rules of equal priority in their original order.
C10_AdmissibleByPriority ==
    query.op = "matching" =>
        /\ {result.rules[i] : i \in DOMAIN result.rules}
               = {r.rule_id : r \in {x \in CacheRules : Admissible(x)}}
        /\ \A i, j \in DOMAIN result.rules : i < j =>
               /\ result.rules[i] # result.rules[j]
               /\ CacheRule(result.rules[i]).priority
                      >= CacheRule(result.rules[j]).priority
               /\ CacheRule(result.rules[i]).priority
                      = CacheRule(result.rules[j]).priority
                  => CacheIndex(result.rules[i]) < CacheIndex(result.rules[j])

(***************************************************************************)
(* Schedule evaluation on its own                                          *)
(***************************************************************************)
\* one rule's schedule test as the query loops make it:
\* not (rule['schedule_enabled'] and not self._check_schedule(rule['schedule_config']))
EvaluateSchedule(schedule_enabled, schedule_config, now) ==
    /\ ~sched.done
    /\ sched' = [done |-> TRUE, schedule_enabled |-> schedule_enabled,
                 schedule_config |-> schedule_config, now |-> now,
                 active |-> ~(schedule_enabled
                              /\ ~check_schedule_at(schedule_config, now))]
    /\ UNCHANGED notSchedule

ScheduleInit == ThrottleIdle /\ StreamStart("rtsp") /\ RulesStart(<<>>) /\ ExtraStart

ScheduleNext ==
    \E schedule_enabled \in BOOLEAN, schedule_config \in ScheduleConfigs, now \in Instants :
        EvaluateSchedule(schedule_enabled, schedule_config, now)

SpecSchedule == ScheduleInit /\ [][ScheduleNext]_vars

\* minutes of the day a time string stands for, a malformed one standing for 00:00
MinutesOf(time_str) ==
    IF time_str = "08:00" THEN 480 ELSE IF time_str = "17:00" THEN 1020 ELSE 0

WeekdayAdmits ==
    sched.schedule_config.weekdays = {}
        \/ sched.now.weekday \in sched.schedule_config.weekdays

\* C11: a rule with its schedule disabled is always active; with its schedule
\* enabled it is active iff the weekday set is empty or holds the current weekday
\* and the range list is empty or start <= t < end for some range (end
\* exclusive), a malformed start or end being read as 00:00.
C11_ActiveEndExclusive ==
    sched.done =>
        (sched.active <=>
            \/ ~sched.schedule_enabled
            \/ /\ WeekdayAdmits
               /\ \/ sched.schedule_config.time_ranges = <<>>
                  \/ \E i \in DOMAIN sched.schedule_config.time_ranges :
                        /\ MinutesOf(sched.schedule_config.time_ranges[i].start)
                               <= sched.now.minutes
                        /\ sched.now.minutes
                               < MinutesOf(sched.schedule_config.time_ranges[i].end))

\* C11 as the code has it: the same, but a range admits start <= t <= end (the
\* end instant itself included).
C11_ActiveEndInclusive ==
    sched.done =>
        (sched.active <=>
            \/ ~sched.schedule_enabled
            \/ /\ WeekdayAdmits
               /\ \/ sched.schedule_config.time_ranges = <<>>
                  \/ \E i \in DOMAIN sched.schedule_config.time_ranges :
                        /\ MinutesOf(sched.schedule_config.time_ranges[i].start)
                               <= sched.now.minutes
                        /\ sched.now.minutes
                               <= MinutesOf(sched.schedule_config.time_ranges[i].end))

\* an enabled schedule 08:00-17:00 evaluated at 17:00 sharp is active
C11_Witness ==
    /\ sched.done /\ sched.schedule_enabled /\ sched.active
    /\ sched.schedule_config.time_ranges = << [start |-> "08:00", end |-> "17:00"] >>
    /\ sched.now.minutes = 1020

(***************************************************************************)
(* HelmetViolationManager.process_frame: association with a face           *)
(***************************************************************************)
Box(x, y, w, h) == [x |-> x, y |-> y, w |-> w, h |-> h]

\* bounding boxes the helmet detector reports, and faces the recogniser reports
ViolationBoxes == { Box(0, 0, 10, 1), Box(0, 0, 5, 2) }
FaceBoxes == { Box(0, 0, 5, 1), Box(5, 0, 5, 1), Box(7, 0, 3, 1), Box(6, 0, 4, 2),
               Box(9, 0, 1, 1), Box(0, 1, 5, 1) }
FaceDetections == [bbox : FaceBoxes, person_id : PersonIds]
FaceLists == UNION { [1..n -> FaceDetections] : n \in 0..MaxFaces }
ViolationLists == UNION { [1..n -> ViolationBoxes] : n \in 0..MaxViolations }

Max(a, b) == IF a >= b THEN a ELSE b
Min(a, b) == IF a <= b THEN a ELSE b

\* overlap_area of a violation box and a face box, 0 when they do not overlap
overlap_area(v, f) ==
    LET overlap_x1 == Max(v.x, f.x)
        overlap_y1 == Max(v.y, f.y)
        overlap_x2 == Min(v.x + v.w, f.x + f.w)
        overlap_y2 == Min(v.y + v.h, f.y + f.h)
    IN  IF overlap_x2 > overlap_x1 /\ overlap_y2 > overlap_y1
        THEN (overlap_x2 - overlap_x1) * (overlap_y2 - overlap_y1)
        ELSE 0

\* best_overlap >= 0.3, the ratio being overlap_area / violation_area
at_least_threshold(best_area, violation_area) == best_area * 10 >= violation_area * 3

\* best_overlap > 0.3
above_threshold(best_area, violation_area) == best_area * 10 > violation_area * 3

\* the loop of _associate_violation_with_person from face i on; best_area is
\* best_overlap times the violation's area
RECURSIVE associate_loop(_, _, _, _, _)
associate_loop(v, face_detections, i, best_area, best_person_id) ==
    IF i > Len(face_detections)
    THEN IF above_threshold(best_area, v.w * v.h) /\ best_person_id # NoPerson
         THEN best_person_id
         ELSE NoPerson
    ELSE IF overlap_area(v, face_detections[i].bbox) > best_area
         THEN associate_loop(v, face_detections, i + 1,
                             overlap_area(v, face_detections[i].bbox),
                             face_detections[i].person_id)
         ELSE associate_loop(v, face_detections, i + 1, best_area, best_person_id)

\* _associate_violation_with_person: the person, or NoPerson for None
associate_violation_with_person(v, face_detections) ==
    IF face_detections = <<>> THEN NoPerson
    ELSE associate_loop(v, face_detections, 1, 0, NoPerson)

\* the for loop of process_frame from violation i on: st carries
\* last_screenshot_time, the results returned and the records and counters
RECURSIVE process_violations(_, _, _, _, _, _, _)
process_violations(violations, i, face_detections, current_time, store_given, path, st) ==
    IF i > Len(violations) THEN st
    ELSE LET person_id == associate_violation_with_person(violations[i], face_detections)
             should == should_take_screenshot(st.last, person_id, current_time)
             f == [person_id |-> person_id, current_time |-> current_time,
                   should |-> should,
                   image_path |-> IF should /\ store_given THEN path ELSE NoPath]
         IN  IF person_id = NoPerson
             THEN process_violations(violations, i + 1, face_detections, current_time,
                                     store_given, path, st)
             ELSE process_violations(violations, i + 1, face_detections, current_time,
                     store_given, path,
                     [last |-> helmet_update(st.last, f),
                      returned |-> Append(st.returned,
                                     [violation |-> i, person_id |-> person_id,
                                      screenshot_taken |-> should]),
                      violation_records |-> st.violation_records + 1,
                      total_violations |-> st.total_violations + 1])

never_skips(face_detections) == FALSE

\* if not face_detections or len(face_detections) == 0: return []
skips_helmet_detection(face_detections) == face_detections = <<>>

\* HelmetViolationManager.process_frame on one frame: the faces found in it, what
\* the helmet detector finds in it, and what the screenshot store answers
HelmetProcessFrame(face_detections, violations, path) ==
    /\ ~hframe.done
    /\ LET st == IF skips_helmet_detection(face_detections)
                 THEN [last |-> last_screenshot_time, returned |-> <<>>,
                       violation_records |-> 0, total_violations |-> 0]
                 ELSE process_violations(violations, 1, face_detections, clock,
                          screenshot_manager["helmet"], path,
                          [last |-> last_screenshot_time, returned |-> <<>>,
                           violation_records |-> 0, total_violations |-> 0])
       IN  /\ last_screenshot_time' = st.last
           /\ hframe' = [done |-> TRUE, faces |-> face_detections,
                         violations |-> violations,
                         detector_calls |->
                             IF skips_helmet_detection(face_detections) THEN 0 ELSE 1,
                         returned |-> st.returned,
                         violation_records |-> st.violation_records,
                         total_violations |-> st.total_violations,
                         last_before |-> last_screenshot_time]
    /\ UNCHANGED <<last_notification_time, screenshot_manager, notification_sender,
                   clock, call, results, overlapped, capture_failed>>
    /\ UNCHANGED notHelmet

\* a manager that has or has not processed person_001 before, at tick MaxClock
HelmetStart ==
    /\ \E t \in {NoTime} \cup 0..MaxClock :
          last_screenshot_time = [p \in PersonIds |-> IF p = "person_001" THEN t ELSE NoTime]
    /\ last_notification_time = [p \in PersonIds |-> NoTime]
    /\ screenshot_manager \in [Kinds -> BOOLEAN]
    /\ notification_sender = [k \in Kinds |-> TRUE]
    /\ clock = MaxClock
    /\ call = [c \in Callers |-> IdleCall]
    /\ results = [k \in Kinds, p \in PersonIds, t \in 0..MaxClock |->
                    [acc |-> 0, rej |-> 0]]
    /\ overlapped = FALSE
    /\ capture_failed = FALSE

HelmetInit == HelmetStart /\ StreamStart("rtsp") /\ RulesStart(<<>>) /\ ExtraStart

HelmetNext ==
    \E face_detections \in FaceLists, violations \in ViolationLists,
       path \in {Saved, NoPath} :
        HelmetProcessFrame(face_detections, violations, path)

SpecHelmet == HelmetInit /\ [][HelmetNext]_vars

\* the unit cells a box covers
CellsOf(b) == (b.x .. b.x + b.w - 1) \X (b.y .. b.y + b.h - 1)

\* cells of violation i that face j covers: its overlap fraction times the
\* violation's area
Covered(i, j) ==
    Cardinality(CellsOf(hframe.violations[i]) \cap CellsOf(hframe.faces[j].bbox))

AreaOf(i) == Cardinality(CellsOf(hframe.violations[i]))

\* face j covers at least as much of violation i as every face of the frame
IsBest(i, j) == \A k \in DOMAIN hframe.faces : Covered(i, j) >= Covered(i, k)

\* the results returned for violation i
ReturnedFor(i) ==
    {n \in DOMAIN hframe.returned : hframe.returned[n].violation = i}

\* C12: a helmet violation is attributed to the face whose intersection with it
\* is the largest fraction of the violation's area, and only if that fraction is
\* above 0.3; otherwise it is discarded with no result, record or screenshot.  A
\* face covering 50% gets the violation, a face covering 10% does not.
C12_AttributedToLargestOverlap ==
    hframe.done =>
        /\ \A i \in DOMAIN hframe.violations :
              LET attributable ==
                      \E j \in DOMAIN hframe.faces :
                          IsBest(i, j) /\ Covered(i, j) * 10 > AreaOf(i) * 3
              IN  /\ attributable => Cardinality(ReturnedFor(i)) = 1
                  /\ ~attributable => ReturnedFor(i) = {}
                  /\ \A n \in ReturnedFor(i) :
                        \E j \in DOMAIN hframe.faces :
                            /\ IsBest(i, j)
                            /\ hframe.returned[n].person_id = hframe.faces[j].person_id
                  /\ (Len(hframe.faces) = 1 /\ Covered(i, 1) * 2 = AreaOf(i))
                        => \E n \in ReturnedFor(i) :
                              hframe.returned[n].person_id = hframe.faces[1].person_id
                  /\ (Len(hframe.faces) = 1 /\ Covered(i, 1) * 10 = AreaOf(i))
                        => ReturnedFor(i) = {}
        /\ hframe.violation_records = Len(hframe.returned)
        /\ \A p \in PersonIds :
              last_screenshot_time[p] # hframe.last_before[p]
                  => \E n \in DOMAIN hframe.returned :
                        /\ hframe.returned[n].person_id = p
                        /\ hframe.returned[n].screenshot_taken

\* a frame with two faces and two violations: one violation goes to the face
\* that covers more of it, the other is covered too little and is discarded
C12_Witness ==
    /\ hframe.done
    /\ Len(hframe.faces) = 2 /\ Len(hframe.violations) = 2
    /\ Len(hframe.returned) = 1
    /\ \E j, k \in DOMAIN hframe.faces :
          /\ hframe.faces[j].person_id # hframe.faces[k].person_id
          /\ Covered(hframe.returned[1].violation, j)
                 > Covered(hframe.returned[1].violation, k)
          /\ Covered(hframe.returned[1].violation, k) > 0

\* C13: with no face detection in the frame process_frame returns an empty
\* result without invoking the helmet detector and changes no cool-down
\* timestamp, record or counter; with a face detection it invokes the detector.
C13_NoFacesNoHelmetEvaluation ==
    hframe.done =>
        /\ hframe.faces = <<>> =>
              /\ hframe.returned = <<>>
              /\ hframe.detector_calls = 0
              /\ hframe.violation_records = 0
              /\ hframe.total_violations = 0
              /\ last_screenshot_time = hframe.last_before
        /\ hframe.faces # <<>> => hframe.detector_calls = 1

\* a frame without faces in which the helmet detector would have found two
\* violations
C13_Witness ==
    /\ hframe.done
    /\ hframe.faces = <<>>
    /\ Len(hframe.violations) = 2
    /\ hframe.returned = <<>>

(***************************************************************************)
(* InactivityDetectionManager.process_frame on one camera                  *)
(***************************************************************************)
\* datetime.now() moves on
ITick ==
    /\ iclock < MaxITime
    /\ iclock' = iclock + 1
    /\ UNCHANGED <<camera_state, icall, ievents, iframes>>
    /\ UNCHANGED notInactivity

\* a thread enters process_frame with a frame: current_time = datetime.now().
\* has_face: face_detections is non-empty; motion: the frame's motion score is
\* above motion_threshold.  iframes notes when the camera last had such a frame.
IStamp(c, has_face, motion) ==
    /\ icall[c].pc = "idle"
    /\ \A d \in Callers : d < c => icall[d].pc # "idle"
    /\ LET seen == [face |-> IF has_face THEN iclock ELSE iframes.face,
                    motion |-> IF motion THEN iclock ELSE iframes.motion]
       IN  /\ iframes' = seen
           /\ icall' = [icall EXCEPT ![c] =
                           [pc |-> "stamped", current_time |-> iclock,
                            has_face |-> has_face, motion |-> motion,
                            face_seen |-> seen.face, motion_seen |-> seen.motion]]
    /\ UNCHANGED <<camera_state, iclock, ievents>>
    /\ UNCHANGED notInactivity

\* no_face and no_motion: both timers have run for inactivity_threshold
both_elapsed(time_since_face, time_since_motion) ==
    /\ time_since_face >= inactivity_threshold
    /\ time_since_motion >= inactivity_threshold

\* not (last_detection_time is not None and time_since_detection < check_interval)
interval_passed(last_detection_time, current_time) ==
    \/ last_detection_time = NoTime
    \/ current_time - last_detection_time >= check_interval

\* camera_state after process_frame's updates for frame f
updated_state(state, f) ==
    [state EXCEPT !.last_face_time = IF f.has_face THEN f.current_time ELSE @,
                  !.last_motion_time = IF f.motion THEN f.current_time ELSE @]

\* process_frame's updates of last_face_time and last_motion_time, then the
\* tests of _check_inactivity on what camera_state holds
IUpdateAndCheck(c) ==
    /\ icall[c].pc = "stamped"
    /\ camera_state' = updated_state(camera_state, icall[c])
    /\ LET current_time == icall[c].current_time
           raises ==
               /\ both_elapsed(current_time - camera_state'.last_face_time,
                               current_time - camera_state'.last_motion_time)
               /\ interval_passed(camera_state'.last_detection_time, current_time)
       IN  icall' = [icall EXCEPT ![c].pc = IF raises THEN "raise" ELSE "idle"]
    /\ UNCHANGED <<iclock, ievents, iframes>>
    /\ UNCHANGED notInactivity

\* the rest of _check_inactivity: last_detection_time = current_time, the
\* DetectionResult is returned
IRaise(c) ==
    /\ icall[c].pc = "raise"
    /\ camera_state' = [camera_state EXCEPT !.last_detection_time = icall[c].current_time]
    /\ ievents' = [ievents EXCEPT ![icall[c].current_time] = Min(@ + 1, MaxEvents)]
    /\ icall' = [icall EXCEPT ![c].pc = "idle"]
    /\ UNCHANGED <<iclock, iframes>>
    /\ UNCHANGED notInactivity

InactivityInit == ThrottleIdle /\ StreamStart("rtsp") /\ RulesStart(<<>>) /\ ExtraStart

InactivityNext ==
    \/ ITick
    \/ \E c \in Callers, has_face \in BOOLEAN, motion \in BOOLEAN :
          IStamp(c, has_face, motion)
    \/ \E c \in Callers : IUpdateAndCheck(c)
    \/ \E c \in Callers : IRaise(c)

SpecInactivity == InactivityInit /\ [][InactivityNext]_vars

\* C15: any two inactivity events raised for the camera are at least
\* check_interval apart (with threshold and interval of 30 s, 35 s of still,
\* empty frames give exactly one event and 40 s more give exactly one more).
C15_EventsCheckIntervalApart ==
    /\ \A t \in DOMAIN ievents : ievents[t] <= 1
    /\ \A t1, t2 \in DOMAIN ievents :
          (ievents[t1] > 0 /\ ievents[t2] > 0 /\ t1 < t2) => t2 - t1 >= check_interval

\* C16: an inactivity event is raised only if, at its frame, at least
\* inactivity_threshold has elapsed since the camera's last frame with a face
\* and at least inactivity_threshold since its last frame with motion above
\* motion_threshold, each counted from the camera's first frame if there was none.
C16_EventOnlyAfterBothElapsed ==
    \A c \in Callers :
        icall[c].pc = "raise" =>
            /\ icall[c].current_time - icall[c].face_seen >= inactivity_threshold
            /\ icall[c].current_time - icall[c].motion_seen >= inactivity_threshold

(***************************************************************************)
(* NotificationSender                                                      *)
(***************************************************************************)
\* what one request to the endpoint ends in: status 200, another status, or
\* an exception (connection refused, timeout)
Outcomes(endpoint) ==
    IF endpoint = "down" THEN {"status", "exception"}
                         ELSE {"200", "status", "exception"}

\* the notifications submitted so far
Submitted == {j \in 1..MaxJobs : jobs[j].state # "none"}

\* for attempt in range(self.retry_attempts): the loop goes round once more
more_or_equal_attempts(attempt, retry_attempts) == attempt <= retry_attempts

more_attempts(attempt, retry_attempts) == attempt < retry_attempts

\* _update_stats(success)
update_stats(st, success) ==
    [total_sent |-> st.total_sent + 1,
     successful_sent |-> st.successful_sent + (IF success THEN 1 ELSE 0),
     failed_sent |-> st.failed_sent + (IF success THEN 0 ELSE 1)]

\* start_async_worker: nothing if the worker runs already.  The thread of an
\* earlier start is taken to have ended.
StartAsyncWorker ==
    /\ ~nsender.is_running
    /\ nworker.pc = "off"
    /\ nsender' = [nsender EXCEPT !.is_running = TRUE]
    /\ nworker' = [pc |-> "get", job |-> 0, attempt |-> 0]
    /\ UNCHANGED <<notification_queue, stats, ncall, jobs>>
    /\ UNCHANGED notNotify

\* stop_async_worker: the flag is cleared; the worker ends at its next test
StopAsyncWorker ==
    /\ nsender.is_running
    /\ nsender' = [nsender EXCEPT !.is_running = FALSE]
    /\ UNCHANGED <<notification_queue, stats, ncall, nworker, jobs>>
    /\ UNCHANGED notNotify

\* send_violation_notification up to its branch.  async_send is "None" or a
\* flag.  `if use_async and self.is_running`: Queue() has no maxsize, so put
\* neither blocks nor drops, and True is returned; otherwise the thread enters
\* _send_notification_sync.
Submit(c, async_send) ==
    /\ ncall[c].pc = "idle"
    /\ \A d \in Callers : d < c => ncall[d].pc # "idle"
    /\ Cardinality(Submitted) < MaxJobs
    /\ LET j == Cardinality(Submitted) + 1
           use_async == IF async_send = "None" THEN nsender.async_mode
                        ELSE async_send = "True"
       IN  IF use_async /\ nsender.is_running
           THEN /\ notification_queue' = Append(notification_queue, j)
                /\ jobs' = [jobs EXCEPT ![j] = [NoJob EXCEPT !.state = "queued",
                                                !.use_async = use_async,
                                                !.returned = "True"]]
                /\ UNCHANGED ncall
           ELSE /\ ncall' = [ncall EXCEPT ![c] = [pc |-> "sending", job |-> j,
                                                  attempt |-> 0]]
                /\ jobs' = [jobs EXCEPT ![j] = [NoJob EXCEPT !.state = "sending",
                                                !.use_async = use_async,
                                                !.by = "caller"]]
                /\ UNCHANGED notification_queue
    /\ UNCHANGED <<nsender, stats, nworker>>
    /\ UNCHANGED notNotify

\* one round of the loop of _send_notification_sync / _send_notification_async
\* in frame f: the request ends in outcome.  On 200 the success is counted and
\* True returned; otherwise the next round follows (after retry_delay, which
\* holds no state).  The result is the frame, the counters and the job's note.
Round(f, outcome, to_caller) ==
    LET j == f.job
        tried == [jobs[j] EXCEPT !.attempts = @ + 1]
    IN  IF outcome = "200"
        THEN [frame |-> [f EXCEPT !.pc = "done"],
              stats |-> update_stats(stats, TRUE),
              job |-> [tried EXCEPT !.state = "sent",
                                    !.returned = IF to_caller THEN "True" ELSE @]]
        ELSE [frame |-> [f EXCEPT !.attempt = @ + 1],
              stats |-> stats,
              job |-> tried]

\* the loop is over: _update_stats(success=False, ...) and return False
Exhausted(f, to_caller) ==
    [frame |-> [f EXCEPT !.pc = "done"],
     stats |-> update_stats(stats, FALSE),
     job |-> [jobs[f.job] EXCEPT !.state = "failed", !.failed_updates = @ + 1,
                                 !.returned = IF to_caller THEN "False" ELSE @]]

\* a caller inside _send_notification_sync makes a request
CallerAttempt(c, outcome) ==
    /\ ncall[c].pc = "sending"
    /\ more_attempts(ncall[c].attempt, nsender.retry_attempts)
    /\ outcome \in Outcomes(nsender.endpoint)
    /\ LET r == Round(ncall[c], outcome, TRUE)
       IN  /\ ncall' = [ncall EXCEPT ![c] = IF r.frame.pc = "done" THEN IdleSend
                                            ELSE r.frame]
           /\ stats' = r.stats
           /\ jobs' = [jobs EXCEPT ![ncall[c].job] = r.job]
    /\ UNCHANGED <<nsender, notification_queue, nworker>>
    /\ UNCHANGED notNotify

\* a caller leaves _send_notification_sync with False
CallerGiveUp(c) ==
    /\ ncall[c].pc = "sending"
    /\ ~more_attempts(ncall[c].attempt, nsender.retry_attempts)
    /\ LET r == Exhausted(ncall[c], TRUE)
       IN  /\ ncall' = [ncall EXCEPT ![c] = IdleSend]
           /\ stats' = r.stats
           /\ jobs' = [jobs EXCEPT ![ncall[c].job] = r.job]
    /\ UNCHANGED <<nsender, notification_queue, nworker>>
    /\ UNCHANGED notNotify

\* _async_worker: notification_queue.get(timeout=1.0) returns a notification
WorkerGet ==
    /\ nworker.pc = "get"
    /\ nsender.is_running
    /\ notification_queue # <<>>
    /\ LET j == Head(notification_queue)
       IN  /\ nworker' = [pc |-> "sending", job |-> j, attempt |-> 0]
           /\ jobs' = [jobs EXCEPT ![j].state = "sending", ![j].by = "worker"]
    /\ notification_queue' = Tail(notification_queue)
    /\ UNCHANGED <<nsender, stats, ncall>>
    /\ UNCHANGED notNotify

\* _async_worker: `while self.is_running` is false, the thread ends
WorkerExit ==
    /\ nworker.pc = "get"
    /\ ~nsender.is_running
    /\ nworker' = [nworker EXCEPT !.pc = "off"]
    /\ UNCHANGED <<nsender, notification_queue, stats, ncall, jobs>>
    /\ UNCHANGED notNotify

\* the worker inside _send_notification_async makes a request
WorkerAttempt(outcome) ==
    /\ nworker.pc = "sending"
    /\ more_attempts(nworker.attempt, nsender.retry_attempts)
    /\ outcome \in Outcomes(nsender.endpoint)
    /\ LET r == Round(nworker, outcome, FALSE)
       IN  /\ nworker' = IF r.frame.pc = "done"
                         THEN [pc |-> "get", job |-> 0, attempt |-> 0] ELSE r.frame
           /\ stats' = r.stats
           /\ jobs' = [jobs EXCEPT ![nworker.job] = r.job]
    /\ UNCHANGED <<nsender, notification_queue, ncall>>
    /\ UNCHANGED notNotify

\* the worker leaves _send_notification_async with False; task_done drops the job
WorkerGiveUp ==
    /\ nworker.pc = "sending"
    /\ ~more_attempts(nworker.attempt, nsender.retry_attempts)
    /\ LET r == Exhausted(nworker, FALSE)
       IN  /\ nworker' = [pc |-> "get", job |-> 0, attempt |-> 0]
           /\ stats' = r.stats
           /\ jobs' = [jobs EXCEPT ![nworker.job] = r.job]
    /\ UNCHANGED <<nsender, notification_queue, ncall>>
    /\ UNCHANGED notNotify

NotifyInit ==
    /\ ThrottleIdle /\ StreamStart("rtsp") /\ RulesStart(<<>>)
    /\ sched = NoEvaluation /\ hframe = NoHelmetFrame /\ InactivityStart /\ SamplerStart
    /\ MoreStart
    /\ \E async_mode \in BOOLEAN, retry_attempts \in 0..MaxRetry,
          endpoint \in {"down", "up"} :
          NotifyStart(async_mode, retry_attempts, endpoint)

NotifyNext ==
    \/ StartAsyncWorker
    \/ StopAsyncWorker
    \/ \E c \in Callers, async_send \in {"None", "True", "False"} : Submit(c, async_send)
    \/ \E c \in Callers, outcome \in {"200", "status", "exception"} :
          CallerAttempt(c, outcome)
    \/ \E c \in Callers : CallerGiveUp(c)
    \/ WorkerGet
    \/ WorkerExit
    \/ \E outcome \in {"200", "status", "exception"} : WorkerAttempt(outcome)
    \/ WorkerGiveUp

SpecNotify == NotifyInit /\ [][NotifyNext]_vars

\* C17: with retry_attempts = N and an endpoint on which every request fails,
\* a notification gets at most N requests; once given up it has had exactly N,
\* failed_sent has grown by exactly 1 for it, and the synchronous caller got
\* False.  Nothing counts as sent.
C17_ExactlyNAttemptsThenGiveUp ==
    nsender.endpoint = "down" =>
        /\ \A j \in 1..MaxJobs :
              /\ jobs[j].attempts <= nsender.retry_attempts
              /\ jobs[j].state # "sent"
              /\ jobs[j].state = "failed" =>
                    /\ jobs[j].attempts = nsender.retry_attempts
                    /\ jobs[j].failed_updates = 1
                    /\ jobs[j].by = "caller" => jobs[j].returned = "False"
        /\ stats.failed_sent = Cardinality({j \in 1..MaxJobs : jobs[j].state = "failed"})
        /\ stats.successful_sent = 0

\* three retries, a dead endpoint: one notification given up by its caller and
\* one by the worker, each after three requests
C17_Witness ==
    /\ nsender.endpoint = "down"
    /\ nsender.retry_attempts = 3
    /\ \E j, k \in 1..MaxJobs :
          /\ jobs[j].state = "failed" /\ jobs[j].by = "caller" /\ jobs[j].attempts = 3
          /\ jobs[k].state = "failed" /\ jobs[k].by = "worker" /\ jobs[k].attempts = 3
    /\ stats.failed_sent = 2

\* C18: a notification submitted in async mode is only put on the queue: the
\* submitting thread makes no request for it and is not handed a failure.
C18_AsyncSubmitOnlyEnqueues ==
    \A j \in 1..MaxJobs :
        jobs[j].use_async => (jobs[j].by # "caller" /\ jobs[j].returned # "False")

\* C19: the notification queue has a capacity: it never holds all the
\* notifications the producers of the model submit.
C19_QueueBounded == Len(notification_queue) < MaxJobs

(***************************************************************************)
(* UniversalStreamManager.process_frames and the stream's frame callback   *)
(***************************************************************************)
\* time.time() moves on
PTick ==
    /\ ptime < MaxPTime
    /\ ptime' = ptime + 1
    /\ UNCHANGED <<pstream, frame_callbacks, last_processing_time, ploop, handler_calls>>
    /\ UNCHANGED notSampler

\* the registered frame handler is invoked now with frame; newest_before is
\* the latest-captured frame it was invoked with before
invoked(calls, now, frame) ==
    [before |-> calls.last, last |-> now, frame |-> frame,
     newest_before |-> Max(calls.newest_before, calls.frame)]

\* UniversalStreamManager.set_frame_callback: the callback goes into
\* frame_callbacks and, the stream being in streams, onto the stream itself
SetFrameCallback ==
    /\ ~frame_callbacks
    /\ frame_callbacks' = TRUE
    /\ pstream' = [pstream EXCEPT !.frame_callback = TRUE]
    /\ UNCHANGED <<ptime, last_processing_time, ploop, handler_calls>>
    /\ UNCHANGED notSampler

\* start_stream / stop_stream, as far as is_running goes
StartStream ==
    /\ ~pstream.is_running
    /\ pstream' = [pstream EXCEPT !.is_running = TRUE]
    /\ UNCHANGED <<ptime, frame_callbacks, last_processing_time, ploop, handler_calls>>
    /\ UNCHANGED notSampler

StopStream ==
    /\ pstream.is_running
    /\ pstream' = [pstream EXCEPT !.is_running = FALSE]
    /\ UNCHANGED <<ptime, frame_callbacks, last_processing_time, ploop, handler_calls>>
    /\ UNCHANGED notSampler

\* BaseStream._put_frame, called by the capture worker for each frame it
\* reads (frames are numbered in capture order): the frame is queued (the
\* oldest dropped when full) and self.frame_callback, if set, is called with it
PutFrame ==
    /\ pstream.is_running
    /\ pstream.captured < MaxFrames
    /\ LET frame == pstream.captured + 1
           room == IF full(pstream.queued) THEN get_nowait(pstream.queued)
                   ELSE pstream.queued
       IN  /\ pstream' = [pstream EXCEPT !.queued = put(room, frame), !.captured = frame]
           /\ handler_calls' = IF pstream.frame_callback
                               THEN invoked(handler_calls, ptime, frame)
                               ELSE handler_calls
    /\ UNCHANGED <<ptime, frame_callbacks, last_processing_time, ploop>>
    /\ UNCHANGED notSampler

\* the monitoring loop enters process_frames: current_time = time.time()
PBegin ==
    /\ ploop.pc = "idle"
    /\ ploop' = [ploop EXCEPT !.pc = "streams", !.current_time = ptime]
    /\ UNCHANGED <<ptime, pstream, frame_callbacks, last_processing_time, handler_calls>>
    /\ UNCHANGED notSampler

\* time_since_last < (1.0 / self.processing_fps): the stream is passed over
too_soon(time_since_last) == time_since_last < processing_interval

\* the newest of the frames queued, NoFrame if there is none
newest_queued(q) == IF q = <<>> THEN NoFrame ELSE q[Len(q)]

\* BaseStream.get_latest_frame / RTSPStream.get_latest_frame: what
\* frame_queue.get_nowait() returns, None (NoFrame) on Empty
get_latest_frame(q) == IF q = <<>> THEN NoFrame ELSE Head(q)

\* process_frames reaches the stream (after the streams before it): passed
\* over if not running or if too soon; otherwise get_latest_frame is called
\* (ploop notes what it returned and the newest frame queued then) and, unless
\* it returned None, the handler in frame_callbacks is called with the frame
\* and last_processing_time is set to the current_time taken on entry
PStream ==
    /\ ploop.pc = "streams"
    /\ IF \/ ~pstream.is_running
          \/ too_soon(ploop.current_time - last_processing_time)
       THEN /\ ploop' = [ploop EXCEPT !.pc = "idle"]
            /\ UNCHANGED <<pstream, last_processing_time, handler_calls>>
       ELSE LET stream_frame == get_latest_frame(pstream.queued)
            IN  /\ ploop' = [ploop EXCEPT !.pc = "idle", !.got = stream_frame,
                                          !.newest = newest_queued(pstream.queued)]
                /\ IF stream_frame = NoFrame
                   THEN UNCHANGED <<pstream, last_processing_time, handler_calls>>
                   ELSE /\ pstream' = [pstream EXCEPT !.queued = get_nowait(@)]
                        /\ handler_calls' =
                              IF frame_callbacks
                              THEN invoked(handler_calls, ptime, stream_frame)
                              ELSE handler_calls
                        /\ last_processing_time' = ploop.current_time
    /\ UNCHANGED <<ptime, frame_callbacks>>
    /\ UNCHANGED notSampler

SamplerInit == ThrottleIdle /\ StreamStart("rtsp") /\ RulesStart(<<>>) /\ ExtraStart

SamplerNext ==
    \/ PTick
    \/ SetFrameCallback
    \/ StartStream
    \/ StopStream
    \/ PutFrame
    \/ PBegin
    \/ PStream

SpecSampler == SamplerInit /\ [][SamplerNext]_vars

\* C20: two consecutive invocations of the stream's frame handler are at
\* least 1/processing_fps apart, whichever thread makes them.
C20_HandlerCadence ==
    handler_calls.before # NoTime =>
        handler_calls.last - handler_calls.before >= processing_interval

\* C21: get_latest_frame returns None when the stream's queue is empty and
\* otherwise the most recently captured of the frames queued.
C21_LatestFrameIsNewest == ploop.got = ploop.newest

\* C22: the handler is never invoked with a frame captured earlier than a
\* frame of the stream it was already invoked with.
C22_HandlerInCaptureOrder == handler_calls.frame >= handler_calls.newest_before


(***************************************************************************)
(* UniversalStreamManager: the registry of stream clients                  *)
(***************************************************************************)
StreamIds == {"cam1", "cam2"}

\* one entry of stream_sources: valid is what StreamFactory.validate_config
\* and create_stream make of it
StreamConfigs == [id : StreamIds, enabled : BOOLEAN, valid : BOOLEAN]
ConfigLists == UNION { [1..n -> StreamConfigs] : n \in 1..MaxConfigs }

\* the ids registered
RegisteredIds(reg) == {e.id : e \in reg}

\* self.streams[stream_id] = stream: the entry under that key is replaced
dict_set(reg, id, client) ==
    {e \in reg : e.id # id} \cup {[id |-> id, client |-> client, is_running |-> FALSE]}

\* del self.streams[stream_id]
dict_del(reg, id) == {e \in reg : e.id # id}

\* add_stream: if stream_config['id'] in self.streams
never_registered(reg, id) == FALSE

already_registered(reg, id) == id \in RegisteredIds(reg)

\* initialize_streams from entry i on: a disabled or invalid entry is passed
\* over, any other gets a new client stored under its id
RECURSIVE initialize_loop(_, _, _, _)
initialize_loop(stream_configs, i, reg, created) ==
    IF i > Len(stream_configs) THEN [streams |-> reg, created |-> created]
    ELSE IF ~stream_configs[i].enabled \/ ~stream_configs[i].valid
         THEN initialize_loop(stream_configs, i + 1, reg, created)
         ELSE initialize_loop(stream_configs, i + 1,
                              dict_set(reg, stream_configs[i].id, created + 1),
                              created + 1)

InitializeStreams(stream_configs) ==
    /\ reg_created + Len(stream_configs) <= MaxClients
    /\ LET r == initialize_loop(stream_configs, 1, reg_streams, reg_created)
       IN  /\ reg_streams' = r.streams
           /\ reg_created' = r.created
           /\ reg_op' = [op |-> "initialize_streams", id |-> stream_configs[1].id,
                         result |-> r.created > reg_created, before |-> reg_streams]
    /\ UNCHANGED notRegistry

\* add_stream: False for an invalid configuration, for an id already in
\* streams and when no client could be created; otherwise the new client is
\* stored and True returned
AddStream(stream_config) ==
    /\ reg_created < MaxClients
    /\ LET ok == /\ stream_config.valid
                 /\ ~already_registered(reg_streams, stream_config.id)
       IN  /\ reg_streams' = IF ok THEN dict_set(reg_streams, stream_config.id,
                                                 reg_created + 1)
                             ELSE reg_streams
           /\ reg_created' = IF ok THEN reg_created + 1 ELSE reg_created
           /\ reg_op' = [op |-> "add_stream", id |-> stream_config.id, result |-> ok,
                         before |-> reg_streams]
    /\ UNCHANGED notRegistry

\* remove_stream: False for an unknown id; otherwise stop_capture and del
RemoveStream(stream_id) ==
    /\ reg_streams' = dict_del(reg_streams, stream_id)
    /\ reg_op' = [op |-> "remove_stream", id |-> stream_id,
                  result |-> stream_id \in RegisteredIds(reg_streams),
                  before |-> reg_streams]
    /\ UNCHANGED reg_created
    /\ UNCHANGED notRegistry

\* start_stream on a registered id: the client's start_capture sets is_running
RegStartStream(stream_id) ==
    /\ \E e \in reg_streams : e.id = stream_id /\ ~e.is_running
    /\ reg_streams' = {IF e.id = stream_id THEN [e EXCEPT !.is_running = TRUE] ELSE e :
                       e \in reg_streams}
    /\ reg_op' = [op |-> "start_stream", id |-> stream_id, result |-> TRUE,
                  before |-> reg_streams]
    /\ UNCHANGED reg_created
    /\ UNCHANGED notRegistry

RegistryInit == ThrottleIdle /\ StreamStart("rtsp") /\ RulesStart(<<>>) /\ ExtraStart

RegistryNext ==
    \/ \E stream_configs \in ConfigLists : InitializeStreams(stream_configs)
    \/ \E stream_config \in StreamConfigs : AddStream(stream_config)
    \/ \E stream_id \in StreamIds : RemoveStream(stream_id)
    \/ \E stream_id \in StreamIds : RegStartStream(stream_id)

SpecRegistry == RegistryInit /\ [][RegistryNext]_vars

Components == <<"rule_engine", "face_recognizer", "face", "inactivity", "helmet",
                "drowsiness">>

ExceptionClasses == {"ValueError", "RuntimeError"}   \* what a component raises
DispatchStreams == {"cam1", "cam2"}

\* the answers of get_enabled_detection_types the handler is run on
EnabledSets == { {}, {"face"}, {"inactivity"}, {"helmet", "drowsiness"}, Managers }

\* `except Exception`: the clause takes the exception raised
except_nothing(raised) == FALSE

except_Exception(raised) == raised \in ExceptionClasses

\* if not enabled_detection_types: return
always_processed(enabled_detection_types) == FALSE

skip_frame(enabled_detection_types) == enabled_detection_types = {}

\* component i is reached and called: the rule engine always, the others only
\* on a frame that is not skipped, a manager only if enabled and constructed
is_called(i, enabled_detection_types) ==
    \/ Components[i] = "rule_engine"
    \/ /\ ~skip_frame(enabled_detection_types)
       /\ \/ Components[i] = "face_recognizer"
          \/ Components[i] \in enabled_detection_types \cap omanagers

\* the body of _process_frame from component i on.  fail_at is the component
\* that raises when called (0: none); a manager that returns has processed
\* the frame.
RECURSIVE process_components(_, _, _, _, _, _)
process_components(i, enabled_detection_types, fail_at, raised, calls, st) ==
    IF i > Len(Components) THEN [calls |-> calls, state |-> st, raised |-> "none"]
    ELSE IF ~is_called(i, enabled_detection_types)
         THEN process_components(i + 1, enabled_detection_types, fail_at, raised, calls, st)
         ELSE IF i = fail_at
              THEN [calls |-> Append(calls, Components[i]), state |-> st,
                    raised |-> raised]
              ELSE process_components(
                       i + 1, enabled_detection_types, fail_at, raised,
                       Append(calls, Components[i]),
                       IF Components[i] \in Managers
                       THEN [st EXCEPT ![Components[i]] = @ + 1] ELSE st)

\* where an exception of the handler ends: in _process_frame's own except, in
\* the except around the callback in process_frames, or in _monitoring_loop,
\* whose try encloses the while loop
caught_in(raised) ==
    IF raised = "none" THEN "none"
    ELSE IF except_Exception(raised) THEN "_process_frame"
    ELSE IF except_Exception(raised) THEN "process_frames"
    ELSE "_monitoring_loop"

\* the managers _initialize_detectors has constructed when it ends or raises,
\* in its order: drowsiness detector, face manager, helmet manager, inactivity
\* manager
Constructed ==
    { {}, {"drowsiness"}, {"drowsiness", "face"}, {"drowsiness", "face", "helmet"},
      Managers }

\* initialize(): _initialize_managers, then _initialize_detectors as far as it gets
OrchInitialize(managers) ==
    /\ ~osys.initialized
    /\ osys' = [osys EXCEPT !.initialized = TRUE]
    /\ omanagers' = managers
    /\ oshut' = [oshut EXCEPT !.face_mesh = IF "drowsiness" \in managers THEN "open" ELSE @]
    /\ UNCHANGED <<ostate, ototal, oframe, oafter>>
    /\ UNCHANGED notOrch

\* start() on an initialized system: is_running = True, the monitoring thread
\* runs _monitoring_loop
OrchStartSystem ==
    /\ osys.initialized
    /\ ~osys.is_running
    /\ osys' = [osys EXCEPT !.is_running = TRUE, !.monitoring_thread = "running"]
    /\ oshut' = [oshut EXCEPT !.stopped = FALSE]
    /\ UNCHANGED <<omanagers, ostate, ototal, oframe, oafter>>
    /\ UNCHANGED notOrch

\* the monitoring loop, in process_frames, hands a frame of camera_id to
\* _process_frame.  enabled_detection_types is what the rule engine answers.
Dispatch(camera_id, enabled_detection_types, fail_at, raised) ==
    /\ osys.is_running
    /\ osys.monitoring_thread = "running"
    /\ ototal < MaxDispatch
    /\ LET r == process_components(1, enabled_detection_types, fail_at, raised,
                                   <<>>, ostate)
           where == caught_in(r.raised)
       IN  /\ ototal' = ototal + 1
           /\ ostate' = r.state
           /\ oframe' = [camera_id |-> camera_id,
                         enabled_detection_types |-> enabled_detection_types,
                         calls |-> r.calls, raised |-> r.raised, caught_in |-> where,
                         before |-> ostate]
           /\ osys' = [osys EXCEPT !.monitoring_thread =
                          IF where = "_monitoring_loop" THEN "ended" ELSE @]
           /\ oafter' = [failed |-> oafter.failed \/ r.raised # "none",
                         later |-> IF oafter.failed THEN oafter.later \cup {camera_id}
                                   ELSE oafter.later]
    /\ UNCHANGED <<omanagers, oshut>>
    /\ UNCHANGED notOrch

\* DrowsinessDetector.cleanup: self.face_mesh.close().  face_mesh is a
\* mediapipe FaceMesh made in __init__; closing one that is closed raises.
close_face_mesh(face_mesh) ==
    IF face_mesh = "open" THEN [face_mesh |-> "closed", raised |-> "none"]
    ELSE IF face_mesh = "closed" THEN [face_mesh |-> "closed", raised |-> "ValueError"]
    ELSE [face_mesh |-> face_mesh, raised |-> "none"]

\* stop(): is_running = False, the monitoring thread is joined, the streams
\* and the notification worker are stopped (each a no-op when stopped already),
\* then the cleanups: `if self.drowsiness_detector: ... .cleanup()` among them.
\* Nothing in stop() catches an exception.
OrchStop ==
    /\ oshut.stops < MaxStops
    /\ osys' = [osys EXCEPT !.is_running = FALSE,
                            !.monitoring_thread = IF @ = "running" THEN "stopped" ELSE @]
    /\ LET r == close_face_mesh(oshut.face_mesh)
       IN  oshut' = [face_mesh |-> r.face_mesh, stops |-> oshut.stops + 1,
                     stopped |-> TRUE, raised |-> r.raised]
    /\ UNCHANGED <<omanagers, ostate, ototal, oframe, oafter>>
    /\ UNCHANGED notOrch

OrchInit == ThrottleIdle /\ StreamStart("rtsp") /\ RulesStart(<<>>) /\ ExtraStart

OrchNext ==
    \/ \E managers \in Constructed : OrchInitialize(managers)
    \/ OrchStartSystem
    \/ OrchStop
    \/ \E camera_id \in DispatchStreams, enabled_detection_types \in EnabledSets,
          fail_at \in 0..Len(Components), raised \in ExceptionClasses :
          /\ fail_at = 0 => raised = "ValueError"
          /\ Dispatch(camera_id, enabled_detection_types, fail_at, raised)

SpecOrch == OrchInit /\ [][OrchNext]_vars

C26_StopIdempotent ==
    /\ oshut.raised = "none"
    /\ oshut.stopped => (~osys.is_running /\ osys.monitoring_thread # "running")


(***************************************************************************)
(* _process_single_violation / _process_single_detection with failing sinks *)
(***************************************************************************)
\* _save_violation_record, _save_detection_record, _send_violation_notification
\* and _send_face_detection_notification each end in `except Exception`: what
\* the write or the delivery raises is logged there
sink_except_nothing(raised) == FALSE

sink_except(raised) == raised

\* the rest of _process_single_* for frame f, one caller at a time: the record
\* is saved, the timestamp updated and the notification sent, in the order of
\* the manager (helmet: save, update, send; face: save, send, update).  An
\* exception that leaves a sink ends the handler in its own except: None is
\* returned and the statements after the sink are not run.
after_sinks(f, save_raised, send_raised) ==
    LET accepted == f.should /\ f.image_path # NoPath
        save_escapes == save_raised /\ ~sink_except(save_raised)
        send_escapes == accepted /\ send_raised /\ ~sink_except(send_raised)
        updated == IF f.kind = "helmet"
                   THEN ~save_escapes
                   ELSE ~save_escapes /\ ~send_escapes
    IN  [helmet |-> IF f.kind = "helmet" /\ updated
                    THEN helmet_update(last_screenshot_time, f)
                    ELSE last_screenshot_time,
         face |-> IF f.kind = "face" /\ updated
                  THEN face_update(last_notification_time, f, notification_sender["face"])
                  ELSE last_notification_time,
         returned |-> IF save_escapes \/ send_escapes THEN "None" ELSE "dict"]

\* one detection of a frame goes through _process_single_*: the decision, the
\* screenshot (path, None when it cannot be written) and the sinks
HandleDetection(kind, person_id, path, save_raised, send_raised) ==
    LET f0 == [kind |-> kind, person_id |-> person_id, current_time |-> clock,
               should |-> FALSE, image_path |-> NoPath]
        should == decision(f0)
        f == [f0 EXCEPT !.should = should,
                        !.image_path = IF should /\ screenshot_manager[kind] THEN path
                                       ELSE NoPath]
        accepted == f.should /\ f.image_path # NoPath
        r == after_sinks(f, save_raised, send_raised)
    IN  /\ \A c \in Callers : call[c].pc = "idle"
        /\ should \/ path = NoPath
        /\ accepted \/ ~send_raised
        /\ last_screenshot_time' = r.helmet
        /\ last_notification_time' = r.face
        /\ sink' = [handled |-> TRUE, kind |-> kind, person_id |-> person_id,
                    current_time |-> clock, should |-> should, image_path |-> f.image_path,
                    save_raised |-> save_raised, send_raised |-> send_raised,
                    returned |-> r.returned,
                    prior |-> sink.failed_accept[kind, person_id],
                    failed_accept |->
                        IF accepted /\ (save_raised \/ send_raised)
                        THEN [sink.failed_accept EXCEPT ![kind, person_id] = clock]
                        ELSE sink.failed_accept]
        /\ UNCHANGED <<screenshot_manager, notification_sender, clock, call, results,
                       overlapped, capture_failed>>
        /\ UNCHANGED notSink

SinkInit == ThrottleIdle /\ StreamStart("rtsp") /\ RulesStart(<<>>) /\ ExtraStart

SinkNext ==
    \/ Tick
    \/ \E kind \in Kinds, person_id \in PersonIds, path \in {Saved, NoPath},
          save_raised \in BOOLEAN, send_raised \in BOOLEAN :
          HandleDetection(kind, person_id, path, save_raised, send_raised)

SpecSink == SinkInit /\ [][SinkNext]_vars

\* the timestamp the manager of kind k holds for person p
LastAccepted(k, p) ==
    IF k = "helmet" THEN last_screenshot_time[p] ELSE last_notification_time[p]

CameraIds == {"cam1", "cam2"}

\* the key under which process_frame and _check_inactivity find the state of
\* camera_id: self.camera_states[camera_id]
one_state_for_all(camera_id) == "cam1"

state_key(camera_id) == camera_id

\* _initialize_camera_state if the camera is new, then process_frame's
\* updates of last_face_time / last_motion_time on state
frame_updates(state, current_time, has_face, motion) ==
    LET known == IF state.known THEN state
                 ELSE [known |-> TRUE, last_face_time |-> current_time,
                       last_motion_time |-> current_time, last_detection_time |-> NoTime]
    IN  updated_state(known, [current_time |-> current_time, has_face |-> has_face,
                              motion |-> motion])

\* _check_inactivity on state: an event is returned
raises_event(state, current_time) ==
    /\ both_elapsed(current_time - state.last_face_time,
                    current_time - state.last_motion_time)
    /\ interval_passed(state.last_detection_time, current_time)

\* process_frame on state at current_time: the state left and whether an
\* event was returned
process_camera_frame(state, current_time, has_face, motion) ==
    LET updated == frame_updates(state, current_time, has_face, motion)
        raised == raises_event(updated, current_time)
    IN  [state |-> IF raised THEN [updated EXCEPT !.last_detection_time = current_time]
                   ELSE updated,
         raised |-> raised]

\* process_frame(frame, camera_id, face_detections), one call at a time.
\* has_face: face_detections is non-empty; motion: the motion score is above
\* motion_threshold (never on the camera's first frame, which has no
\* previous_frame).
CamProcessFrame(camera_id, has_face, motion) ==
    /\ motion => camera_states[state_key(camera_id)].known
    /\ LET r == process_camera_frame(camera_states[state_key(camera_id)], iclock,
                                     has_face, motion)
           alone == process_camera_frame(cam_alone[camera_id], iclock, has_face, motion)
       IN  /\ camera_states' = [camera_states EXCEPT ![state_key(camera_id)] = r.state]
           /\ cam_alone' = [cam_alone EXCEPT ![camera_id] = alone.state]
           /\ cam_op' = [camera_id |-> camera_id, raised |-> r.raised,
                         alone_raised |-> alone.raised]
    /\ UNCHANGED notCameras

CamerasInit == ThrottleIdle /\ StreamStart("rtsp") /\ RulesStart(<<>>) /\ ExtraStart

CamerasNext ==
    \/ ITick
    \/ \E camera_id \in CameraIds, has_face \in BOOLEAN, motion \in BOOLEAN :
          CamProcessFrame(camera_id, has_face, motion)

SpecCameras == CamerasInit /\ [][CamerasNext]_vars

\* C28: a frame of one camera changes no other camera's face timer, motion
\* timer or last-event time: every camera's state is what its own frames
\* alone make it, and an event is returned for a frame exactly when the
\* camera's own frames call for it.
C28_CamerasIndependent ==
    /\ camera_states = cam_alone
    /\ cam_op.raised = cam_op.alone_raised

\* an event is raised for one camera while the other, which had an event
\* earlier, is inside its check interval and has seen a face since
C28_Witness ==
    /\ cam_op.camera_id = "cam2"
    /\ cam_op.raised
    /\ camera_states["cam1"].last_detection_time # NoTime
    /\ camera_states["cam1"].last_detection_time < camera_states["cam2"].last_detection_time
    /\ camera_states["cam1"].last_face_time > camera_states["cam1"].last_detection_time


(***************************************************************************)
(* RuleEngineManager.reload_rules, statement by statement, under the       *)
(* threads that call get_enabled_detection_types                           *)
(***************************************************************************)
\* the detection_rules table before and after an edit of rule 2
ReloadTables ==
    { << WithId(Row(NoType, {}, {}, {"face"}, 80, 0, FALSE, NoSchedule, TRUE), 1),
         WithId(Row(NoType, {}, {}, {"helmet", "drowsiness"}, 70, 1, FALSE,
                    NoSchedule, TRUE), 2) >>,
      << WithId(Row(NoType, {}, {}, {"face"}, 80, 0, FALSE, NoSchedule, TRUE), 1),
         WithId(Row(NoType, {"cam1"}, {}, {"helmet", "drowsiness"}, 80, 0, FALSE,
                    NoSchedule, TRUE), 2) >> }

\* self.rules_cache[rule.rule_id] = {...}: a new key goes last, a key already
\* there keeps its place
cache_put(cache, row) ==
    IF \E j \in DOMAIN cache : cache[j].rule_id = row.rule_id
    THEN [j \in DOMAIN cache |-> IF cache[j].rule_id = row.rule_id THEN row ELSE cache[j]]
    ELSE Append(cache, row)

\* get_enabled_detection_types is entered: should_reload_rules()
ReaderCall(t) ==
    /\ rthread[t].pc = "idle"
    /\ rthread' = [rthread EXCEPT ![t] =
           [IdleReader EXCEPT
              !.pc = IF should_reload_rules(last_reload_time, rnow) THEN "open" ELSE "read",
              !.before = rules_cache]]
    /\ UNCHANGED <<rules_cache, last_reload_time, last_complete>>
    /\ UNCHANGED <<store, rnow, query, result, reload_failure>>
    /\ UNCHANGED notRuleReload

\* the except branch of reload_rules: the error is logged, the caller goes on
reload_failed(r) == [r EXCEPT !.pc = "read", !.failed = TRUE]

\* db = SessionLocal()
ReloadOpen(t, ok) ==
    /\ rthread[t].pc = "open"
    /\ rthread' = [rthread EXCEPT ![t] =
           IF ok THEN [@ EXCEPT !.pc = "query"] ELSE reload_failed(@)]
    /\ UNCHANGED <<rules_cache, last_reload_time, last_complete>>
    /\ reload_failure' = (reload_failure \/ ~ok)
    /\ UNCHANGED <<store, rnow, query, result>>
    /\ UNCHANGED notRuleReload

\* rules = db.query(DetectionRule).filter(DetectionRule.enabled == True).all()
ReloadQuery(t, ok) ==
    /\ rthread[t].pc = "query"
    /\ rthread' = [rthread EXCEPT ![t] =
           IF ok THEN [@ EXCEPT !.pc = "clear", !.rows = reload_rules(store)]
           ELSE reload_failed(@)]
    /\ UNCHANGED <<rules_cache, last_reload_time, last_complete>>
    /\ reload_failure' = (reload_failure \/ ~ok)
    /\ UNCHANGED <<store, rnow, query, result>>
    /\ UNCHANGED notRuleReload

\* self.rules_cache = {}
ReloadClear(t) ==
    /\ rthread[t].pc = "clear"
    /\ rules_cache' = <<>>
    /\ rthread' = [rthread EXCEPT ![t] = [@ EXCEPT !.pc = "fill", !.i = 1]]
    /\ UNCHANGED <<last_reload_time, last_complete>>
    /\ UNCHANGED <<store, rnow, query, result, reload_failure>>
    /\ UNCHANGED notRuleReload

\* one turn of `for rule in rules`: the row is converted and stored, or its
\* conversion raises
ReloadRow(t, ok) ==
    /\ rthread[t].pc = "fill"
    /\ rthread[t].i <= Len(rthread[t].rows)
    /\ IF ok
       THEN /\ rules_cache' = cache_put(rules_cache, rthread[t].rows[rthread[t].i])
            /\ rthread' = [rthread EXCEPT ![t] = [@ EXCEPT !.i = @ + 1]]
       ELSE /\ rthread' = [rthread EXCEPT ![t] = reload_failed(@)]
            /\ UNCHANGED rules_cache
    /\ UNCHANGED <<last_reload_time, last_complete>>
    /\ reload_failure' = (reload_failure \/ ~ok)
    /\ UNCHANGED <<store, rnow, query, result>>
    /\ UNCHANGED notRuleReload

\* after the loop: self.last_reload_time = datetime.now()
ReloadStamp(t) ==
    /\ rthread[t].pc = "fill"
    /\ rthread[t].i > Len(rthread[t].rows)
    /\ last_reload_time' = Seconds(rnow)
    /\ last_complete' = rthread[t].rows
    /\ rthread' = [rthread EXCEPT ![t] = [@ EXCEPT !.pc = "close"]]
    /\ UNCHANGED rules_cache
    /\ UNCHANGED <<store, rnow, query, result, reload_failure>>
    /\ UNCHANGED notRuleReload

\* db.close()
ReloadClose(t, ok) ==
    /\ rthread[t].pc = "close"
    /\ rthread' = [rthread EXCEPT ![t] =
           IF ok THEN [@ EXCEPT !.pc = "read"] ELSE reload_failed(@)]
    /\ UNCHANGED <<rules_cache, last_reload_time, last_complete>>
    /\ reload_failure' = (reload_failure \/ ~ok)
    /\ UNCHANGED <<store, rnow, query, result>>
    /\ UNCHANGED notRuleReload

\* the complete rule sets a reader may meet while thread t reads: the one of
\* the last reload that ran to its end and the ones being loaded
complete_sets(t) ==
    {last_complete} \cup
    { rthread[u].rows : u \in { v \in ReaderThreads : rthread[v].pc \in {"clear", "fill", "close"} } }

\* for rule_id, rule in self.rules_cache.items(): the reader goes through the
\* cache as it is at this moment
ReaderRead(t) ==
    /\ rthread[t].pc = "read"
    /\ rthread' = [rthread EXCEPT ![t] =
           [@ EXCEPT !.pc = "idle", !.has_read = TRUE, !.seen = rules_cache,
                     !.complete = (rules_cache \in complete_sets(t))]]
    /\ UNCHANGED <<rules_cache, last_reload_time, last_complete>>
    /\ UNCHANGED <<store, rnow, query, result, reload_failure>>
    /\ UNCHANGED notRuleReload

\* a rule of the table is edited and committed (api/routers/rules.py)
EditStore(table) ==
    /\ table # store
    /\ store' = table
    /\ UNCHANGED <<rules_cache, last_reload_time, rnow, query, result>>
    /\ UNCHANGED notRules

\* MonitoringSystem._initialize_managers has run: RuleEngineManager() and a
\* first reload_rules() that loaded the table, before any stream thread exists
ReloadInit ==
    /\ \E table \in ReloadTables :
          /\ store = table
          /\ rules_cache = reload_rules(table)
          /\ last_complete = reload_rules(table)
    /\ last_reload_time = Seconds(1)
    /\ rnow = 1
    /\ query = NoQuery
    /\ result = NoResult
    /\ rthread = [t \in ReaderThreads |-> IdleReader]
    /\ reload_failure = FALSE
    /\ ThrottleIdle /\ StreamStart("rtsp")
    /\ sched = NoEvaluation /\ hframe = NoHelmetFrame /\ InactivityStart
    /\ NotifyStart(TRUE, MaxRetry, "down") /\ SamplerStart
    /\ RegistryStart /\ OrchStart /\ SinkStart /\ CamerasStart
    /\ WorkersStart /\ LazyStart /\ HLSStart /\ CaptureStart
    /\ DLoopStart /\ RouteStart

ReloadStep(t) ==
    \/ ReaderCall(t)
    \/ \E ok \in BOOLEAN : ReloadOpen(t, ok)
    \/ \E ok \in BOOLEAN : ReloadQuery(t, ok)
    \/ ReloadClear(t)
    \/ \E ok \in BOOLEAN : ReloadRow(t, ok)
    \/ ReloadStamp(t)
    \/ \E ok \in BOOLEAN : ReloadClose(t, ok)
    \/ ReaderRead(t)

\* the calls of the threads interleave statement by statement
ReloadNext ==
    \/ RTick
    \/ \E table \in ReloadTables : EditStore(table)
    \/ \E t \in ReaderThreads : ReloadStep(t)

SpecReload == ReloadInit /\ [][ReloadNext]_vars

\* one call of get_enabled_detection_types at a time
ReloadAloneNext ==
    \/ RTick
    \/ \E table \in ReloadTables : EditStore(table)
    \/ \E t \in ReaderThreads :
          /\ \A u \in ReaderThreads \ {t} : rthread[u].pc = "idle"
          /\ ReloadStep(t)

SpecReloadAlone == ReloadInit /\ [][ReloadAloneNext]_vars

\* C29: a reader of the rule cache that runs while reload_rules runs in
\* another thread goes through a complete rule set, the previous one or the
\* new one, never an empty or partly filled one (no reload_rules having failed:
\* that case is C30's).
C29_ReaderSeesCompleteSet ==
    ~reload_failure => \A t \in ReaderThreads : rthread[t].has_read => rthread[t].complete

\* C30: after a reload_rules that failed, at whatever statement, the engine
\* serves the rule set it served before that reload.
C30_FailedReloadKeepsRules ==
    \A t \in ReaderThreads :
        (rthread[t].has_read /\ rthread[t].failed) => rthread[t].seen = rthread[t].before


(***************************************************************************)
(* The reload cadence of the rule engine                                   *)
(***************************************************************************)
\* C31: once a query operation has run at an instant, with its reload attempt
\* successful or failed, no reload is due at that instant any more: the next
\* attempt waits until reload_interval has elapsed again.
C31_NoReloadBeforeInterval ==
    (query.op # "none" /\ query.at = rnow) => ~should_reload_rules(last_reload_time, rnow)


(***************************************************************************)
(* NotificationSender: start_async_worker, stop_async_worker and cleanup   *)
(* with every worker thread they leave behind                              *)
(***************************************************************************)
\* the worker threads made so far
MadeWorkers == {k \in 1..MaxWorkerThreads : wthreads[k].pc # "unborn"}

\* start_async_worker: nothing if is_running; else the flag is set and a new
\* thread made and started
WStart ==
    /\ wctl.pc = "idle"
    /\ IF nsender.is_running
       THEN UNCHANGED <<nsender, wthreads, wctl>>
       ELSE /\ Cardinality(MadeWorkers) < MaxWorkerThreads
            /\ LET k == Cardinality(MadeWorkers) + 1
               IN  /\ wthreads' = [wthreads EXCEPT ![k] = [pc |-> "get", job |-> 0,
                                                           attempt |-> 0]]
                   /\ wctl' = [wctl EXCEPT !.worker_thread = k]
            /\ nsender' = [nsender EXCEPT !.is_running = TRUE]
    /\ UNCHANGED <<notification_queue, stats, ncall, nworker, jobs>>
    /\ UNCHANGED notNotifyWorkers

\* stop_async_worker (op = "stop") or cleanup (op = "cleanup") up to the join:
\* self.is_running = False
WStop(op) ==
    /\ wctl.pc = "idle"
    /\ nsender' = [nsender EXCEPT !.is_running = FALSE]
    /\ wctl' = [wctl EXCEPT !.pc = "joining", !.op = op]
    /\ UNCHANGED <<notification_queue, stats, ncall, nworker, jobs, wthreads>>
    /\ UNCHANGED notNotifyWorkers

\* self.worker_thread.join(timeout=5) is over: there is no thread, the thread
\* has ended, or the 5 seconds passed with the thread inside a send (a thread
\* waiting in get(timeout=1.0) ends within the 5 seconds)
join_returns ==
    IF wctl.worker_thread = 0 THEN TRUE
    ELSE wthreads[wctl.worker_thread].pc \in {"off", "sending"}

\* the rest of stop_async_worker, and of cleanup: while not
\* notification_queue.empty(): get_nowait()
WJoined ==
    /\ wctl.pc = "joining"
    /\ join_returns
    /\ wctl' = [wctl EXCEPT !.pc = "idle", !.op = "none"]
    /\ notification_queue' = IF wctl.op = "cleanup" THEN <<>> ELSE notification_queue
    /\ UNCHANGED <<nsender, stats, ncall, nworker, jobs, wthreads>>
    /\ UNCHANGED notNotifyWorkers

\* _async_worker of thread k: `while self.is_running` holds and
\* notification_queue.get(timeout=1.0) returns a notification
WGet(k) ==
    /\ wthreads[k].pc = "get"
    /\ nsender.is_running
    /\ notification_queue # <<>>
    /\ LET j == Head(notification_queue)
       IN  /\ wthreads' = [wthreads EXCEPT ![k] = [pc |-> "sending", job |-> j,
                                                   attempt |-> 0]]
           /\ jobs' = [jobs EXCEPT ![j].state = "sending", ![j].by = "worker"]
    /\ notification_queue' = Tail(notification_queue)
    /\ UNCHANGED <<nsender, stats, ncall, nworker, wctl>>
    /\ UNCHANGED notNotifyWorkers

\* _async_worker of thread k: `while self.is_running` is false, the thread ends
WExit(k) ==
    /\ wthreads[k].pc = "get"
    /\ ~nsender.is_running
    /\ wthreads' = [wthreads EXCEPT ![k].pc = "off"]
    /\ UNCHANGED <<nsender, notification_queue, stats, ncall, nworker, jobs, wctl>>
    /\ UNCHANGED notNotifyWorkers

\* thread k inside _send_notification_async makes a request
WAttempt(k, outcome) ==
    /\ wthreads[k].pc = "sending"
    /\ more_attempts(wthreads[k].attempt, nsender.retry_attempts)
    /\ outcome \in Outcomes(nsender.endpoint)
    /\ LET r == Round(wthreads[k], outcome, FALSE)
       IN  /\ wthreads' = [wthreads EXCEPT ![k] =
                  IF r.frame.pc = "done" THEN [pc |-> "get", job |-> 0, attempt |-> 0]
                  ELSE r.frame]
           /\ stats' = r.stats
           /\ jobs' = [jobs EXCEPT ![wthreads[k].job] = r.job]
    /\ UNCHANGED <<nsender, notification_queue, ncall, nworker, wctl>>
    /\ UNCHANGED notNotifyWorkers

\* thread k leaves _send_notification_async with False
WGiveUp(k) ==
    /\ wthreads[k].pc = "sending"
    /\ ~more_attempts(wthreads[k].attempt, nsender.retry_attempts)
    /\ LET r == Exhausted(wthreads[k], FALSE)
       IN  /\ wthreads' = [wthreads EXCEPT ![k] = [pc |-> "get", job |-> 0, attempt |-> 0]]
           /\ stats' = r.stats
           /\ jobs' = [jobs EXCEPT ![wthreads[k].job] = r.job]
    /\ UNCHANGED <<nsender, notification_queue, ncall, nworker, wctl>>
    /\ UNCHANGED notNotifyWorkers

\* NotificationSender(async_mode=True) with retry_attempts of 1 or more
WorkersInit ==
    /\ ThrottleIdle /\ StreamStart("rtsp") /\ RulesStart(<<>>)
    /\ sched = NoEvaluation /\ hframe = NoHelmetFrame /\ InactivityStart /\ SamplerStart
    /\ MoreStart
    /\ \E retry_attempts \in 1..MaxRetry, endpoint \in {"down", "up"} :
          NotifyStart(TRUE, retry_attempts, endpoint)

WorkersNext ==
    \/ WStart
    \/ \E op \in {"stop", "cleanup"} : WStop(op)
    \/ WJoined
    \/ \E c \in Callers : Submit(c, "None")
    \/ \E c \in Callers, outcome \in {"200", "status", "exception"} :
          CallerAttempt(c, outcome)
    \/ \E c \in Callers : CallerGiveUp(c)
    \/ \E k \in 1..MaxWorkerThreads : WGet(k)
    \/ \E k \in 1..MaxWorkerThreads : WExit(k)
    \/ \E k \in 1..MaxWorkerThreads, outcome \in {"200", "status", "exception"} :
          WAttempt(k, outcome)
    \/ \E k \in 1..MaxWorkerThreads : WGiveUp(k)

SpecWorkers == WorkersInit /\ [][WorkersNext]_vars

\* the notifications that went through the queue, in the order they were put
Enqueued == {j \in 1..MaxJobs : jobs[j].returned = "True" /\ jobs[j].by # "caller"}

\* C32: in async mode at most one delivery is in progress at any time, and the
\* queued notifications get their first request in the order they were put on
\* the queue, whatever start_async_worker / stop_async_worker calls were made.
C32_OneDeliveryInOrder ==
    /\ Cardinality({k \in 1..MaxWorkerThreads : wthreads[k].pc = "sending"}) <= 1
    /\ \A j, k \in Enqueued : (j < k /\ jobs[k].attempts > 0) => jobs[j].attempts > 0


\* C40: a notification put on the queue does not disappear: until it is
\* delivered or counted as failed it is on the queue or in the hands of a
\* worker thread, also after stop_async_worker or cleanup.
C40_NoEnqueuedJobLost ==
    \A j \in Enqueued :
        jobs[j].state = "queued" => \E i \in DOMAIN notification_queue : notification_queue[i] = j


(***************************************************************************)
(* LazyDetectorManager.get_helmet_detector and unload_detector             *)
(***************************************************************************)
\* get_helmet_detector is entered: if 'helmet' not in self._detectors
LazyGet(t) ==
    /\ lcall[t].pc = "idle"
    /\ lcall' = [lcall EXCEPT ![t] = [pc |-> IF lazy.loaded THEN "return" ELSE "lock",
                                      returned |-> "none"]]
    /\ UNCHANGED lazy
    /\ UNCHANGED notLazy

\* with self._locks['helmet']: the lock is acquired; the second
\* `if 'helmet' not in self._detectors` under it
LazyLock(t) ==
    /\ lcall[t].pc = "lock"
    /\ lazy.lock = ""
    /\ IF lazy.loaded
       THEN /\ lcall' = [lcall EXCEPT ![t].pc = "return"]
            /\ UNCHANGED lazy
       ELSE /\ lcall' = [lcall EXCEPT ![t].pc = "construct"]
            /\ lazy' = [lazy EXCEPT !.lock = t, !.loading = @ \cup {t}]
    /\ UNCHANGED notLazy

\* HelmetDetector(...); load_model(); self._detectors['helmet'] = detector, or
\* an exception, logged and raised again; the lock is released either way
LazyConstruct(t, ok) ==
    /\ lcall[t].pc = "construct"
    /\ lazy' = [loaded |-> IF ok THEN TRUE ELSE lazy.loaded, lock |-> "",
                loading |-> lazy.loading \ {t}]
    /\ lcall' = [lcall EXCEPT ![t] = IF ok THEN [@ EXCEPT !.pc = "return"]
                                     ELSE [pc |-> "idle", returned |-> "raised"]]
    /\ UNCHANGED notLazy

\* return self._detectors.get('helmet')
LazyReturn(t) ==
    /\ lcall[t].pc = "return"
    /\ lcall' = [lcall EXCEPT ![t] = [pc |-> "idle",
                                      returned |-> IF lazy.loaded THEN "detector" ELSE "None"]]
    /\ UNCHANGED lazy
    /\ UNCHANGED notLazy

\* unload_detector('helmet'): if the name is in _detectors it is popped (and
\* the detector cleaned up); no lock is taken
LazyUnload(t) ==
    /\ lcall[t].pc = "idle"
    /\ lazy' = [lazy EXCEPT !.loaded = FALSE]
    /\ lcall' = [lcall EXCEPT ![t] = [pc |-> "idle", returned |-> "unloaded"]]
    /\ UNCHANGED notLazy

LazyInit ==
    /\ ThrottleIdle /\ StreamStart("rtsp") /\ RulesStart(<<>>) /\ ExtraStart

LazyNext ==
    \/ \E t \in LazyThreads : LazyGet(t)
    \/ \E t \in LazyThreads : LazyLock(t)
    \/ \E t \in LazyThreads, ok \in BOOLEAN : LazyConstruct(t, ok)
    \/ \E t \in LazyThreads : LazyReturn(t)
    \/ \E t \in LazyThreads : LazyUnload(t)

SpecLazy == LazyInit /\ [][LazyNext]_vars

\* C33: under any interleaving of get_helmet_detector calls and
\* unload_detector, at most one thread constructs the detector at a time, and
\* a call that returns normally returns a detector, never None.
C33_OneConstructionNeverNone ==
    /\ Cardinality(lazy.loading) <= 1
    /\ \A t \in LazyThreads : lcall[t].returned # "None"


(***************************************************************************)
(* HLSStream._capture_loop                                                 *)
(***************************************************************************)
\* start_capture: connect() fetches the playlist (n segments, terminal or
\* live), is_running is set and the thread started; nothing if connect fails
HLSStartCapture(n, is_endlist) ==
    /\ hls.pc = "unstarted"
    /\ hls' = [hls EXCEPT !.pc = "top", !.is_running = TRUE, !.is_endlist = is_endlist,
                          !.segments = n, !.fetches = 1]
    /\ UNCHANGED notHLS

\* _refresh_playlist when the segments are used up: nothing is fetched for a
\* terminal playlist; a live one is fetched again and taken over if it lists
\* more segments (grown); False in every other case
refresh_playlist(h, grown) ==
    IF h.is_endlist THEN [stream |-> h, refreshed |-> FALSE]
    ELSE IF grown /\ h.segments < MaxSegments
         THEN [stream |-> [h EXCEPT !.segments = @ + 1, !.fetches = @ + 1],
               refreshed |-> TRUE]
         ELSE [stream |-> [h EXCEPT !.fetches = @ + 1], refreshed |-> FALSE]

\* _capture_loop: `while self.is_running`; the stream is connected, so
\* _process_segments is called
HLSLoopTop ==
    /\ hls.pc = "top"
    /\ IF ~hls.is_running
       THEN hls' = [hls EXCEPT !.pc = "exited"]
       ELSE /\ hls.current_segment_index >= hls.segments => hls.spins < MaxSpins
            /\ hls' = [hls EXCEPT !.pc = "segments",
                         !.spins = IF hls.current_segment_index >= hls.segments
                                   THEN @ + 1 ELSE @]
    /\ UNCHANGED notHLS

\* one turn of the loop of _process_segments: the segment is downloaded and
\* its frames extracted, or that raises; the index moves on either way, and
\* after the last segment of a successful turn _refresh_playlist decides
\* whether the loop goes on
HLSSegment(ok, grown) ==
    /\ hls.pc = "segments"
    /\ hls.is_running
    /\ hls.current_segment_index < hls.segments
    /\ LET moved == [hls EXCEPT !.current_segment_index = @ + 1]
           r == refresh_playlist(moved, grown)
       IN  IF ok /\ moved.current_segment_index >= moved.segments
           THEN hls' = [r.stream EXCEPT !.pc = IF r.refreshed THEN "segments" ELSE "top"]
           ELSE hls' = moved
    /\ UNCHANGED notHLS

\* the loop condition of _process_segments is false: back in _capture_loop
HLSSegmentsDone ==
    /\ hls.pc = "segments"
    /\ ~(hls.is_running /\ hls.current_segment_index < hls.segments)
    /\ hls' = [hls EXCEPT !.pc = "top"]
    /\ UNCHANGED notHLS

\* stop_capture: self.is_running = False
HLSStopCapture ==
    /\ hls.pc \in {"top", "segments"}
    /\ hls.is_running
    /\ hls' = [hls EXCEPT !.is_running = FALSE]
    /\ UNCHANGED notHLS

HLSInit ==
    /\ ThrottleIdle /\ StreamStart("rtsp") /\ RulesStart(<<>>) /\ ExtraStart

HLSNext ==
    \/ \E n \in 1..MaxSegments, is_endlist \in BOOLEAN : HLSStartCapture(n, is_endlist)
    \/ HLSLoopTop
    \/ \E ok \in BOOLEAN, grown \in BOOLEAN : HLSSegment(ok, grown)
    \/ HLSSegmentsDone
    \/ HLSStopCapture

SpecHLS == HLSInit /\ [][HLSNext]_vars

\* C34: on a terminal playlist, once the last listed segment has been
\* processed the capture loop makes no further turn and fetches no manifest:
\* the thread ends.
C34_TerminalPlaylistStops ==
    hls.is_endlist => (hls.spins = 0 /\ hls.fetches = 1)


(***************************************************************************)
(* The capture workers of one stream                                       *)
(***************************************************************************)
\* C36: whenever the stream reports is_running, a capture thread of it is
\* alive: a loop that ends on its own leaves the stream marked not running.
C36_RunningMeansWorkerAlive ==
    is_running => \E w \in Workers : worker[w].pc \notin {"unborn", "exited"}

\* C37: at most one capture thread of the stream pushes frames at any time,
\* whatever start_capture and stop_capture calls were made, also after a
\* stop_capture whose join gave up on a blocked thread.
C37_OneWorkerPushes ==
    Cardinality({w \in Workers : worker[w].pc \in {"put_evict", "put"}}) <= 1


(***************************************************************************)
(* RTSPStream / WebcamStream._capture_loop: errors and error_callback      *)
(***************************************************************************)
\* start_capture of an RTSPStream or a WebcamStream (the two loops are the
\* same but for the webcam's frame pacing) with a connect() that succeeds
CapStart(cls) ==
    /\ cap_loop.pc = "unstarted"
    /\ cap_loop' = [cap_loop EXCEPT !.cls = cls, !.pc = "loop", !.is_running = TRUE,
                                    !.is_connected = TRUE]
    /\ UNCHANGED notCapture

\* while self.is_running: if not self.is_connected: self._reconnect()
CapLoopTop ==
    /\ cap_loop.pc = "loop"
    /\ cap_loop' = [cap_loop EXCEPT !.pc = IF ~cap_loop.is_running THEN "exited"
                                           ELSE IF ~cap_loop.is_connected THEN "reconnect"
                                           ELSE "read"]
    /\ UNCHANGED notCapture

\* ret, frame = self.cap.read(): a frame (put, the loop goes round), a failed
\* read (a warning is logged, then self._reconnect()), or an exception (the
\* except branch)
CapRead(outcome) ==
    /\ cap_loop.pc = "read"
    /\ CASE outcome = "frame" ->
              /\ cap_loop.frames < MaxFrames
              /\ cap_loop' = [cap_loop EXCEPT !.pc = "loop", !.frames = @ + 1,
                                              !.error = "none", !.reported = FALSE]
         [] outcome = "failed" ->
              cap_loop' = [cap_loop EXCEPT !.pc = "reconnect", !.error = "read failed",
                                           !.reported = FALSE]
         [] outcome = "raised" ->
              cap_loop' = [cap_loop EXCEPT !.pc = "except", !.error = "raised",
                                           !.reported = FALSE]
    /\ UNCHANGED notCapture

\* except Exception as e: self._handle_error(...): error_callback(stream_id, error)
CapHandleError ==
    /\ cap_loop.pc = "except"
    /\ cap_loop' = [cap_loop EXCEPT !.pc = "reconnect", !.reported = TRUE]
    /\ UNCHANGED notCapture

\* _reconnect up to its connect(): the attempt bound, the count, disconnect()
CapReconnect ==
    /\ cap_loop.pc = "reconnect"
    /\ cap_loop' = IF cap_loop.reconnect_count >= max_reconnect_attempts
                   THEN [cap_loop EXCEPT !.pc = "exited", !.is_running = FALSE]
                   ELSE [cap_loop EXCEPT !.pc = "connect", !.reconnect_count = @ + 1,
                                         !.is_connected = FALSE]
    /\ UNCHANGED notCapture

\* the connect() of _reconnect: connected again, or its own error is handed
\* to _handle_error and the loop breaks
CapConnect(ok) ==
    /\ cap_loop.pc = "connect"
    /\ cap_loop' = IF ok
                   THEN [cap_loop EXCEPT !.pc = "loop", !.is_connected = TRUE,
                                         !.reconnect_count = 0, !.error = "none",
                                         !.reported = FALSE]
                   ELSE [cap_loop EXCEPT !.pc = "exited", !.error = "connect failed",
                                         !.reported = TRUE]
    /\ UNCHANGED notCapture

\* stop_capture: self.is_running = False
CapStop ==
    /\ cap_loop.pc \notin {"unstarted", "exited"}
    /\ cap_loop.is_running
    /\ cap_loop' = [cap_loop EXCEPT !.is_running = FALSE]
    /\ UNCHANGED notCapture

CaptureInit ==
    /\ ThrottleIdle /\ StreamStart("rtsp") /\ RulesStart(<<>>) /\ ExtraStart

CaptureNext ==
    \/ \E cls \in {"rtsp", "webcam"} : CapStart(cls)
    \/ CapLoopTop
    \/ \E outcome \in {"frame", "failed", "raised"} : CapRead(outcome)
    \/ CapHandleError
    \/ CapReconnect
    \/ \E ok \in BOOLEAN : CapConnect(ok)
    \/ CapStop

SpecCapture == CaptureInit /\ [][CaptureNext]_vars

\* C35: when a reconnect attempt caused by a read or parse error begins, the
\* error callback has been invoked for that error, a failed read included.
C35_ErrorCallbackBeforeReconnect ==
    (cap_loop.pc = "connect" /\ cap_loop.error # "none") => cap_loop.reported


(***************************************************************************)
(* MonitoringSystem._monitoring_loop and process_frames while the registry *)
(* changes                                                                 *)
(***************************************************************************)
\* start(): is_running = True, the monitoring thread enters _monitoring_loop
DLoopStartSystem ==
    /\ dloop.pc = "unstarted"
    /\ dloop' = [dloop EXCEPT !.is_running = TRUE, !.pc = "loop"]
    /\ UNCHANGED notDLoop

\* while self.is_running: process_frames(): `for stream_id, stream in
\* self.streams.items()` makes its iterator, which notes the size of the dict
DLoopProcessFrames ==
    /\ dloop.pc = "loop"
    /\ dloop' = IF dloop.is_running
                THEN [dloop EXCEPT !.pc = "iterating",
                                   !.used = Cardinality(reg_streams), !.passed = 0]
                ELSE [dloop EXCEPT !.pc = "stopped"]
    /\ UNCHANGED notDLoop

\* what the next step of a dict iterator made at size used does when the dict
\* has size now and `passed` entries were handed out
dict_iter_next(used, passed, size) ==
    IF size # used THEN "RuntimeError"
    ELSE IF passed < used THEN "entry"
    ELSE "StopIteration"

\* one step of the for loop of process_frames.  An entry is processed (the
\* frame callback's exceptions are caught inside the loop body); at the end
\* the loop sleeps and goes round; a RuntimeError of the iterator leaves
\* process_frames and is caught by the try around the while of
\* _monitoring_loop, which ends the thread.
DLoopStep ==
    /\ dloop.pc = "iterating"
    /\ LET step == dict_iter_next(dloop.used, dloop.passed, Cardinality(reg_streams))
       IN  dloop' = CASE step = "entry" -> [dloop EXCEPT !.passed = @ + 1]
                      [] step = "StopIteration" -> [dloop EXCEPT !.pc = "loop"]
                      [] OTHER -> [dloop EXCEPT !.pc = "ended", !.raised = step]
    /\ UNCHANGED notDLoop

\* stop(): is_running = False
DLoopStopSystem ==
    /\ dloop.is_running
    /\ dloop' = [dloop EXCEPT !.is_running = FALSE]
    /\ UNCHANGED notDLoop

DLoopInit == ThrottleIdle /\ StreamStart("rtsp") /\ RulesStart(<<>>) /\ ExtraStart

DLoopNext ==
    \/ DLoopStartSystem
    \/ DLoopProcessFrames
    \/ DLoopStep
    \/ DLoopStopSystem
    \/ \E stream_config \in StreamConfigs : AddStream(stream_config)
    \/ \E stream_id \in StreamIds : RemoveStream(stream_id)
    \/ \E stream_id \in StreamIds : RegStartStream(stream_id)

SpecDLoop == DLoopInit /\ [][DLoopNext]_vars

\* C38: while the system is running its dispatch loop is alive: a stream added
\* to or removed from the registry by another thread during the iteration, or
\* an exception inside process_frames, does not end the loop.
C38_DispatchLoopStaysAlive ==
    dloop.is_running => dloop.pc # "ended"


(***************************************************************************)
(* MonitoringSystem._process_frame: from a detection to its record         *)
(***************************************************************************)
RoutedTypes == {"face", "helmet", "drowsiness"}
RoutedStreams == { [id |-> "cam1", type |-> "rtsp"], [id |-> "cam2", type |-> "webcam"] }
RoutedConfidences == {75, 80}              \* confidence, in hundredths

\* the tables a routed frame meets: a rule for every stream, a rule for one
\* stream, a rule for one person, at two thresholds, and a disabled rule
RoutedRows ==
    { Row(NoType, {}, {}, {"face"}, 80, 0, FALSE, NoSchedule, TRUE),
      Row(NoType, {}, {}, {"helmet", "drowsiness"}, 70, 1, FALSE, NoSchedule, TRUE),
      Row(NoType, {"cam1"}, {}, {"helmet", "drowsiness"}, 80, 0, FALSE, NoSchedule, TRUE),
      Row(NoType, {}, {"person_001"}, {"face"}, 80, 1, FALSE, NoSchedule, TRUE),
      Row(NoType, {}, {}, {"face"}, 70, 1, FALSE, NoSchedule, FALSE) }
RoutedStores ==
    UNION { { [i \in 1..n |-> WithId(rows[i], i)] : rows \in [1..n -> RoutedRows] } :
            n \in 0..MaxRules }

\* the cache after the automatic reload at the head of a RuleEngineManager
\* query (ok: the database answered)
cache_after_auto_reload(cache, last, t, ok) ==
    IF should_reload_rules(last, t) /\ ok THEN reload_rules(store) ELSE cache
reload_time_after_auto_reload(last, t, ok) ==
    IF should_reload_rules(last, t) /\ ok THEN Seconds(t) ELSE last

\* FaceDetectionManager._process_single_detection saves a record for every
\* detected face; HelmetViolationManager.process_frame skips a violation
\* that no face is associated with and saves a record for every other one
manager_saves_record(detection_type, person_id) ==
    IF detection_type = "helmet" THEN person_id # NoPerson ELSE TRUE

\* _process_frame for a frame on which one detector finds one detection.
\* get_enabled_detection_types (after its automatic reload) decides which
\* detectors run; face and helmet frames go to their managers' process_frame,
\* a drowsiness detection goes to _handle_violation, which asks
\* should_trigger_violation (after its own automatic reload) and returns
\* before the screenshot when it says no.
RouteFrame(stream, detection_type, confidence, person_id) ==
    \E ok1 \in BOOLEAN, ok2 \in BOOLEAN :
        LET cache1 == cache_after_auto_reload(rules_cache, last_reload_time, rnow, ok1)
            last1 == reload_time_after_auto_reload(last_reload_time, rnow, ok1)
            enabled_detection_types ==
                get_enabled_detection_types(cache1, stream.id, stream.type, rnow)
            handled == detection_type \in enabled_detection_types
                       /\ detection_type \notin {"face", "helmet"}
            cache2 == IF handled THEN cache_after_auto_reload(cache1, last1, rnow, ok2)
                      ELSE cache1
            last2 == IF handled THEN reload_time_after_auto_reload(last1, rnow, ok2)
                     ELSE last1
            should_trigger ==
                should_trigger_violation(cache2, stream.id, stream.type, detection_type,
                                         confidence, person_id, rnow)[1]
        IN  /\ (handled \/ ok2)
            /\ rules_cache' = cache2
            /\ last_reload_time' = last2
            /\ routed' = [done |-> TRUE, stream_id |-> stream.id, stream_type |-> stream.type,
                          detection_type |-> detection_type, confidence |-> confidence,
                          person_id |-> person_id, at |-> rnow,
                          by |-> IF detection_type \notin enabled_detection_types
                                 THEN "none"
                                 ELSE IF handled THEN "_handle_violation"
                                 ELSE "manager",
                          produced |->
                              IF detection_type \notin enabled_detection_types THEN FALSE
                              ELSE IF handled THEN should_trigger
                              ELSE manager_saves_record(detection_type, person_id)]
            /\ UNCHANGED <<store, rnow, query, result>>
            /\ UNCHANGED notRuleRoute

RouteInit ==
    /\ (\E table \in RoutedStores : RulesStart(table))
    /\ ThrottleIdle /\ StreamStart("rtsp") /\ ExtraStart

RouteNext ==
    \/ RTick
    \/ \E stream \in RoutedStreams, detection_type \in RoutedTypes,
          confidence \in RoutedConfidences, person_id \in TriggerPersons :
           RouteFrame(stream, detection_type, confidence, person_id)

SpecRoute == RouteInit /\ [][RouteNext]_vars

\* C39: a record, screenshot or notification comes of a detection only if
\* should_trigger_violation holds for its stream, category, confidence and
\* subject on the rules in force at that time, for helmet and face as well.
C39_OutputOnlyIfRuleTriggers ==
    (routed.done /\ routed.produced /\ routed.at = rnow) =>
        should_trigger_violation(rules_cache, routed.stream_id, routed.stream_type,
                                 routed.detection_type, routed.confidence,
                                 routed.person_id, routed.at)[1]

\* the same for the categories that pass through _handle_violation
HandledOnlyIfRuleTriggers ==
    (routed.done /\ routed.produced /\ routed.at = rnow
        /\ routed.by = "_handle_violation") =>
        should_trigger_violation(rules_cache, routed.stream_id, routed.stream_type,
                                 routed.detection_type, routed.confidence,
                                 routed.person_id, routed.at)[1]

====
